---- MODULE Spec2Model ----
(***************************************************************************)
(* A model of the Cinder / dirtverb signal chain: ShimmerReverb (8-line    *)
(* feedback delay network), LofiDegrader, Wavefolder and the per-sample    *)
(* routing of CinderProcessor::processBlock.                               *)
(*                                                                         *)
(* Numbers.  The program computes in IEEE float.  The model computes in    *)
(* fixed point: the integer v stands for the real v / Q, every product and *)
(* quotient is rounded to the nearest unit (ties away from zero), so the   *)
(* arithmetic is symmetric in sign as float arithmetic is.  Every constant *)
(* of the program (0.8, 0.985, 0.9985, 0.001, 29.5, ...) is a whole number *)
(* of units.  exp, pow, tanh and cos are computed by series to within a    *)
(* few units; integer powers of 10 and of 2 are exact.                     *)
(***************************************************************************)
EXTENDS Integers, Sequences, FiniteSets

\* ------------------------------------------------------------ arithmetic

\* The float 1.0f.
Q == 10000

Abs(x) == IF x < 0 THEN -x ELSE x

Max(a, b) == IF a < b THEN b ELSE a

\* std::clamp(v, lo, hi): v < lo ? lo : hi < v ? hi : v
Clamp(v, lo, hi) == IF v < lo THEN lo ELSE IF hi < v THEN hi ELSE v

\* a / b rounded to the nearest integer, ties away from zero (b > 0).
RoundDiv(a, b) ==
    IF a >= 0 THEN (a + (b \div 2)) \div b ELSE -(((-a) + (b \div 2)) \div b)

\* The float product a * b.
Mul(a, b) == RoundDiv(a * b, Q)

\* The float quotient a / b, b # 0.
Div(a, b) == IF b > 0 THEN RoundDiv(a * Q, b) ELSE -RoundDiv(a * Q, -b)

\* static_cast<int>(x): truncation toward zero.
ToInt(x) == IF x >= 0 THEN x \div Q ELSE -((-x) \div Q)

\* 10^n and 2^n for a natural n.
RECURSIVE IntPow(_, _)
IntPow(b, n) == IF n = 0 THEN 1 ELSE b * IntPow(b, n - 1)

\* The series sum_{k} (+-y)^k / k! for 0 <= y < 1.2 Q: e^y (neg = FALSE) or
\* e^(-y) (neg = TRUE).
ExpSeries(y, neg) ==
    LET t1 == y
        t2 == RoundDiv(Mul(t1, y), 2)
        t3 == RoundDiv(Mul(t2, y), 3)
        t4 == RoundDiv(Mul(t3, y), 4)
        t5 == RoundDiv(Mul(t4, y), 5)
        t6 == RoundDiv(Mul(t5, y), 6)
        t7 == RoundDiv(Mul(t6, y), 7)
        t8 == RoundDiv(Mul(t7, y), 8)
        t9 == RoundDiv(Mul(t8, y), 9)
    IN  IF neg THEN Q - t1 + t2 - t3 + t4 - t5 + t6 - t7 + t8 - t9
               ELSE Q + t1 + t2 + t3 + t4 + t5 + t6 + t7 + t8 + t9

\* e^(-n) for a natural n (0.36788 = e^-1); 0 from n = 10 on.
RECURSIVE ExpNegInt(_)
ExpNegInt(n) ==
    IF n = 0 THEN Q ELSE IF n > 10 THEN 0 ELSE Mul(3679, ExpNegInt(n - 1))

\* std::exp(-y), y >= 0.
ExpNeg(y) == Mul(ExpNegInt(y \div Q), ExpSeries(y % Q, TRUE))

\* std::pow(10.0f, -e), e >= 0: the whole part of e divides by ten exactly,
\* the fraction f gives e^(-f ln 10), in two halves to keep the series short.
Pow10Neg(e) ==
    LET n == e \div Q
        h == RoundDiv((e % Q) * 23026, 2 * Q)
        r == ExpSeries(h, TRUE)
    IN  IF n > 8 THEN 0 ELSE RoundDiv(Mul(r, r), IntPow(10, n))

\* std::pow(10.0f, e), e >= 0, saturating (as float saturates to +inf) from
\* 10^4 on.
Pow10Pos(e) ==
    LET n == e \div Q
        h == RoundDiv((e % Q) * 23026, 2 * Q)
        r == ExpSeries(h, FALSE)
    IN  IF n >= 4 THEN Q * IntPow(10, 4) ELSE Mul(r, r) * IntPow(10, n)

\* std::tanh(x), x >= 0: (1 - e^(-2x)) / (1 + e^(-2x)).
Tanh(x) == LET t == ExpNeg(2 * x) IN RoundDiv((Q - t) * Q, Q + t)

\* cos(2 pi k / 512) for a whole k: folded onto the first quadrant, then
\* the series 1 - x^2/2 + x^4/24 - x^6/720 + x^8/40320.
CosTurn512(k) ==
    LET m  == k % 512
        a  == IF m > 256 THEN 512 - m ELSE m
        b  == IF a > 128 THEN 256 - a ELSE a
        x  == RoundDiv(62832 * b, 512)
        x2 == Mul(x, x)
        t2 == RoundDiv(x2, 2)
        t4 == RoundDiv(Mul(t2, x2), 12)
        t6 == RoundDiv(Mul(t4, x2), 30)
        t8 == RoundDiv(Mul(t6, x2), 56)
        c  == Q - t2 + t4 - t6 + t8
    IN  IF a > 128 THEN -c ELSE c

\* ------------------------------------------- juce::dsp::DelayLine<float>
\* Linear interpolation, one channel.  buf is indexed 0 .. totalSize-1.

\* setMaximumDelayInSamples(n) followed by reset(): totalSize = max(4, n+2).
DelayLine_new(maxDelayInSamples) ==
    LET totalSize == Max(4, maxDelayInSamples + 2)
    IN  [ totalSize |-> totalSize,
          buf       |-> [k \in 0..(totalSize - 1) |-> 0],
          writePos  |-> 0,
          readPos   |-> 0 ]

\* reset(): both cursors and the buffer are cleared.
DelayLine_reset(dl) ==
    [dl EXCEPT !.buf = [k \in 0..(dl.totalSize - 1) |-> 0],
               !.writePos = 0, !.readPos = 0]

\* pushSample(0, sample)
DelayLine_pushSample(dl, sample) ==
    [dl EXCEPT !.buf[dl.writePos] = sample,
               !.writePos = (dl.writePos + dl.totalSize - 1) % dl.totalSize]

\* The value popSample(0, delayInSamples) returns: setDelay clamps the delay
\* to [0, totalSize-2], interpolateSample reads at readPos + delayInt.
DelayLine_read(dl, delayInSamples) ==
    LET delay     == IF delayInSamples >= 0
                     THEN Clamp(delayInSamples, 0, (dl.totalSize - 2) * Q)
                     ELSE 0
        delayInt  == delay \div Q
        delayFrac == delay - delayInt * Q
        i1        == dl.readPos + delayInt
        index1    == IF i1 + 1 >= dl.totalSize THEN i1 % dl.totalSize ELSE i1
        index2    == IF i1 + 1 >= dl.totalSize THEN (i1 + 1) % dl.totalSize ELSE i1 + 1
        value1    == dl.buf[index1]
        value2    == dl.buf[index2]
    IN  value1 + Mul(delayFrac, value2 - value1)

\* The read cursor after popSample(0, d) (updateReadPointer = true).
DelayLine_popped(dl) ==
    [dl EXCEPT !.readPos = (dl.readPos + dl.totalSize - 1) % dl.totalSize]

\* ---------------------------------------------------------- ShimmerReverb

Lines == 0..7

Diffusers == 0..3

\* softLimit: the threshold above which limiting starts (0.8f).
threshold == 8000

\* process: diffuserGain = 0.6f.
diffuserGain == 6000

\* hadamardMix: norm = 1.0f / std::sqrt(8.0f) = 0.35355.
norm == 3536

\* processPitchShift: pitchRatio = 2.0f.
pitchRatio == 20000

\* processPitchShift: grainSize = 512.
grainSize == 512

\* setParameters: the "infinite" feedback gain 0.9985f.
infiniteGain == 9985

\* setParameters: the cap 0.985f of the RT60-derived feedback gain.
gainCap == 9850

\* prepare: baseDelayMs = {35.3, 36.7, 33.8, 32.3, 29.0, 30.8, 27.0, 25.3},
\* in tenths of a millisecond.
baseDelayMs == [i \in Lines |-> <<353, 367, 338, 323, 290, 308, 270, 253>>[i + 1]]

\* process: diffuserDelays = {0.0042, 0.0036, 0.0029, 0.0023} seconds, in
\* units of 1/Q second.
diffuserDelays == [i \in Diffusers |-> <<42, 36, 29, 23>>[i + 1]]

\* A default-constructed ShimmerReverb.  baseDelayTimes has no initializer
\* and the delay lines hold no channel until prepare(): prepared = FALSE
\* marks the object on which process() may not be called yet.
ShimmerReverb_new ==
    [ prepared            |-> FALSE,
      sampleRate          |-> 44100,
      delayLines          |-> [i \in Lines |-> DelayLine_new(0)],
      baseDelayTimes      |-> [i \in Lines |-> 0],
      delayLineStates     |-> [i \in Lines |-> 0],
      inputDiffusers      |-> [i \in Diffusers |-> DelayLine_new(0)],
      dampingFilters      |-> [i \in Lines |-> 0],
      dampingCoeff        |-> 7000,
      feedbackGain        |-> 8500,
      shimmerMix          |-> 0,
      roomSize            |-> 5000,
      shimmerCompensation |-> Q,
      pitchShiftBuffer    |-> [k \in 0..0 |-> 0],
      pitchShiftWritePos  |-> 0,
      pitchShiftReadPos   |-> 0 ]

\* reset() that also rewinds the write cursor of the pitch shifter, and
\* not its read cursor.
ShimmerReverb_reset_rewinds(r) ==
    [r EXCEPT
       !.delayLines         = [i \in Lines |-> DelayLine_reset(r.delayLines[i])],
       !.inputDiffusers     = [i \in Diffusers |-> DelayLine_reset(r.inputDiffusers[i])],
       !.delayLineStates    = [i \in Lines |-> 0],
       !.pitchShiftBuffer   = [k \in DOMAIN r.pitchShiftBuffer |-> 0],
       !.pitchShiftWritePos = 0]

\* reset(): the delay lines, the diffusers, delayLineStates and the
\* pitch-shift buffer are cleared; nothing else is touched.
ShimmerReverb_reset(r) ==
    [r EXCEPT
       !.delayLines       = [i \in Lines |-> DelayLine_reset(r.delayLines[i])],
       !.inputDiffusers   = [i \in Diffusers |-> DelayLine_reset(r.inputDiffusers[i])],
       !.delayLineStates  = [i \in Lines |-> 0],
       !.pitchShiftBuffer = [k \in DOMAIN r.pitchShiftBuffer |-> 0]]

\* prepare(sampleRate, maxBlockSize), sampleRate a whole number of Hz.
ShimmerReverb_prepare(r, sampleRate) ==
    LET delaySamples == [i \in Lines |-> (baseDelayMs[i] * sampleRate) \div 10000]
        bufferSize   == sampleRate \div 2
    IN  ShimmerReverb_reset(
          [r EXCEPT
             !.prepared           = TRUE,
             !.sampleRate         = sampleRate,
             !.delayLines         = [i \in Lines |-> DelayLine_new(delaySamples[i] * 4)],
             !.baseDelayTimes     = delaySamples,
             !.inputDiffusers     = [i \in Diffusers |-> DelayLine_new(sampleRate \div 20)],
             !.dampingFilters     = [i \in Lines |-> 0],
             !.pitchShiftBuffer   = [k \in 0..(bufferSize - 1) |-> 0],
             !.pitchShiftWritePos = 0,
             !.pitchShiftReadPos  = 0])

\* The RT60 power with decaySeconds multiplied into the exponent instead
\* of divided out of it.
rt60Gain_product(decaySeconds) ==
    IF decaySeconds >= 0 THEN Pow10Neg(Mul(900, decaySeconds))
    ELSE Pow10Pos(Mul(900, -decaySeconds))

\* The RT60 gain std::pow(10.0f, -3.0f * 0.030f / decaySeconds) before the
\* clamp.  decaySeconds = 0 gives the exponent -inf and the power 0; a
\* negative decaySeconds gives a positive exponent and a power above 1.
rt60Gain(decaySeconds) ==
    IF decaySeconds = 0 THEN 0
    ELSE IF decaySeconds > 0 THEN Pow10Neg(RoundDiv(900 * Q, decaySeconds))
    ELSE Pow10Pos(RoundDiv(900 * Q, -decaySeconds))

\* The feedback gain without the std::clamp to [0, 0.985].
feedbackGainOf_unclamped(decaySeconds) ==
    IF decaySeconds > 50 * Q THEN infiniteGain ELSE rt60Gain(decaySeconds)

\* setParameters: the feedback gain derived from decaySeconds.
feedbackGainOf(decaySeconds) ==
    IF decaySeconds > 50 * Q
    THEN infiniteGain
    ELSE Clamp(rt60Gain(decaySeconds), 0, gainCap)

\* setParameters(decaySeconds, shimmerAmount, roomSize).  Only the member
\* roomSize is clamped; dampingCoeff is derived from the raw argument.
ShimmerReverb_setParameters(r, decaySeconds, shimmerAmount, roomSize) ==
    [r EXCEPT
       !.feedbackGain        = feedbackGainOf(decaySeconds),
       !.shimmerMix          = shimmerAmount,
       !.roomSize            = Clamp(roomSize, 0, Q),
       !.dampingCoeff        = 2000 + Mul(roomSize, 4000),
       !.shimmerCompensation = Q - Mul(shimmerAmount, 1500)]

\* softLimit with the saturation not scaled into the headroom above the
\* threshold: threshold + tanh(2 excess) instead of
\* threshold + (1 - threshold) tanh(2 excess).
softLimit_unscaled(x) ==
    IF Abs(x) < threshold
    THEN x
    ELSE LET sign    == IF x > 0 THEN 1 ELSE -1
             excess  == Abs(x) - threshold
             limited == threshold + Tanh(excess * 2)
         IN  sign * limited

\* softLimit without the sign: the limited magnitude is returned as is.
softLimit_unsigned(x) ==
    IF Abs(x) < threshold
    THEN x
    ELSE LET excess  == Abs(x) - threshold
             limited == threshold + Mul(Q - threshold, Tanh(excess * 2))
         IN  limited

\* softLimit(x): identity below the threshold, tanh saturation above it.
softLimit(x) ==
    IF Abs(x) < threshold
    THEN x
    ELSE LET sign    == IF x > 0 THEN 1 ELSE -1
             excess  == Abs(x) - threshold
             limited == threshold + Mul(Q - threshold, Tanh(excess * 2))
         IN  sign * limited

RECURSIVE popcountOf(_)
\* while (bits) { popcount += bits & 1; bits >>= 1; }
popcountOf(bits) == IF bits = 0 THEN 0 ELSE (bits % 2) + popcountOf(bits \div 2)

RECURSIVE BitAnd(_, _)
\* i & j
BitAnd(i, j) ==
    IF i = 0 \/ j = 0 THEN 0
    ELSE (i % 2) * (j % 2) + 2 * BitAnd(i \div 2, j \div 2)

\* The entry with the parity of the popcount dropped: -1 wherever i & j
\* is nonzero.
hadamardSign_noParity(i, j) == IF BitAnd(i, j) = 0 THEN 1 ELSE -1

\* The Hadamard entry (-1)^popcount(i & j).
hadamardSign(i, j) == IF popcountOf(BitAnd(i, j)) % 2 = 0 THEN 1 ELSE -1

\* The inner loop of hadamardMix: sum over j of sign * input[j].
hadamardSum(input, i) ==
    hadamardSign(i, 0) * input[0] + hadamardSign(i, 1) * input[1]
    + hadamardSign(i, 2) * input[2] + hadamardSign(i, 3) * input[3]
    + hadamardSign(i, 4) * input[4] + hadamardSign(i, 5) * input[5]
    + hadamardSign(i, 6) * input[6] + hadamardSign(i, 7) * input[7]

\* hadamardMix(input): output[i] = sum * norm.
hadamardMix(input) == [i \in Lines |-> Mul(hadamardSum(input, i), norm)]

\* processPitchShift(input): the buffer and cursors after the call, and the
\* windowed sample it returns.
processPitchShift(r, input) ==
    LET size     == Cardinality(DOMAIN r.pitchShiftBuffer)
        buffer   == [r.pitchShiftBuffer EXCEPT ![r.pitchShiftWritePos] = input]
        writePos == (r.pitchShiftWritePos + 1) % size
        advanced == r.pitchShiftReadPos + pitchRatio
        readPos  == IF advanced >= size * Q THEN advanced - size * Q ELSE advanced
        readIdx  == ToInt(readPos)
        frac     == readPos - readIdx * Q
        nextIdx  == (readIdx + 1) % size
        sample   == Mul(buffer[readIdx], Q - frac) + Mul(buffer[nextIdx], frac)
        grainPos == ToInt(readPos) % grainSize
        window   == 5000 - Mul(5000, CosTurn512(grainPos))
    IN  [ buffer |-> buffer, writePos |-> writePos, readPos |-> readPos,
          readIdx |-> readIdx, nextIdx |-> nextIdx, out |-> Mul(sample, window) ]

RECURSIVE diffuse(_, _, _, _)
\* Stages i..3 of the input diffusion loop of process(): the diffusers after
\* the loop and the diffused sample.
diffuse(diffusers, diffused, sampleRate, i) ==
    IF i = 4
    THEN [ diffusers |-> diffusers, diffused |-> diffused ]
    ELSE LET delaySamples == diffuserDelays[i] * sampleRate
             delayed      == DelayLine_read(diffusers[i], delaySamples)
             toWrite      == diffused + Mul(delayed, diffuserGain)
             pushed       == DelayLine_pushSample(DelayLine_popped(diffusers[i]), toWrite)
         IN  diffuse([diffusers EXCEPT ![i] = pushed],
                     delayed - Mul(diffused, diffuserGain), sampleRate, i + 1)

\* process(input): the reverb after the call (rv), the returned sample
\* (out) and the eight values pushed into the delay lines (written).
ShimmerReverb_process(r, input) ==
    LET d            == diffuse(r.inputDiffusers, input, r.sampleRate, 0)
        delayOutputs == [i \in Lines |->
                           DelayLine_read(r.delayLines[i],
                                          r.baseDelayTimes[i] * (5000 + r.roomSize))]
        mixed0       == hadamardMix(delayOutputs)
        damping      == [i \in Lines |->
                           r.dampingFilters[i]
                           + Mul(r.dampingCoeff, mixed0[i] - r.dampingFilters[i])]
        mixed        == [i \in Lines |->
                           Mul(Mul(softLimit(damping[i]), r.feedbackGain),
                               r.shimmerCompensation)]
        ps           == processPitchShift(r, mixed[0])
        inputContribution == RoundDiv(d.diffused, 8)
        written      == [i \in Lines |->
                           LET shimmerContrib ==
                                 IF i < 4 THEN Mul(Mul(ps.out, r.shimmerMix), 2500) ELSE 0
                           IN  softLimit(mixed[i] + inputContribution + shimmerContrib)]
        output       == delayOutputs[0] + delayOutputs[1] + delayOutputs[2]
                        + delayOutputs[3] + delayOutputs[4] + delayOutputs[5]
                        + delayOutputs[6] + delayOutputs[7]
    IN  [ rv |-> [r EXCEPT
                    !.inputDiffusers     = d.diffusers,
                    !.delayLines         = [i \in Lines |->
                                              DelayLine_pushSample(
                                                DelayLine_popped(r.delayLines[i]),
                                                written[i])],
                    !.dampingFilters     = damping,
                    !.pitchShiftBuffer   = ps.buffer,
                    !.pitchShiftWritePos = ps.writePos,
                    !.pitchShiftReadPos  = ps.readPos],
          out     |-> Mul(output, 2500),
          written |-> written,
          readIdx |-> ps.readIdx,
          nextIdx |-> ps.nextIdx ]


\* ----------------------------------------------------------- LofiDegrader

\* process: the bypass threshold 0.001f on degradeAmount.
degradeBypass == 10

\* setDegrade: the floor of the target sample rate, 4000 Hz.
rateFloor == 4000

\* setDegrade: the floor of the target bit depth, 4 bits.
bitFloor == 40000

\* bitCrush: dither is added above 6 bits.
ditherAbove == 60000

\* uint32_t randState = 12345, kept as two 16-bit halves.
randSeed == [hi |-> 0, lo |-> 12345]

\* A default-constructed LofiDegrader.  Sample rates are whole Hz; every
\* other field is in fixed point.
LofiDegrader_new ==
    [ actualSampleRate |-> 44100,
      targetSampleRate |-> 44100,
      targetBitDepth   |-> 16 * Q,
      degradeAmount    |-> 0,
      phase            |-> 0,
      holdSampleL      |-> 0,
      randState        |-> randSeed ]

\* reset(): the phase and the held sample; the dither generator keeps its
\* state.
LofiDegrader_reset(g) == [g EXCEPT !.phase = 0, !.holdSampleL = 0]

\* prepare(sampleRate)
LofiDegrader_prepare(g, sampleRate) ==
    LofiDegrader_reset([g EXCEPT !.actualSampleRate = sampleRate])

\* setDegrade: targetBitDepth = max(16 - degradeAmount * 12, 4), from the
\* clamped amount.
bitDepthOf(degradeAmount) == Max(16 * Q - degradeAmount * 12, bitFloor)

\* setDegrade: targetSampleRate = max(actualSampleRate * pow(0.1, degradeAmount), 4000).
sampleRateOf(actualSampleRate, degradeAmount) ==
    Max(RoundDiv(actualSampleRate * Pow10Neg(degradeAmount), Q), rateFloor)

\* setDegrade without the std::clamp of the amount.
LofiDegrader_setDegrade_unclamped(g, amount) ==
    [g EXCEPT
       !.degradeAmount    = amount,
       !.targetSampleRate = sampleRateOf(g.actualSampleRate, Clamp(amount, 0, Q)),
       !.targetBitDepth   = bitDepthOf(amount)]

\* setDegrade(amount)
LofiDegrader_setDegrade(g, amount) ==
    LET degradeAmount == Clamp(amount, 0, Q)
    IN  [g EXCEPT
           !.degradeAmount    = degradeAmount,
           !.targetSampleRate = sampleRateOf(g.actualSampleRate, degradeAmount),
           !.targetBitDepth   = bitDepthOf(degradeAmount)]

\* randState = randState * 1103515245 + 12345 (mod 2^32), on the halves:
\* 1103515245 = 16838 * 2^16 + 20077.
randNext(st) ==
    LET low  == st.lo * 20077 + 12345
        high == ((st.hi * 20077) % 65536) + ((st.lo * 16838) % 65536) + (low \div 65536)
    IN  [hi |-> high % 65536, lo |-> low % 65536]

\* static_cast<float>(randState & 0x7FFFFFFF) / static_cast<float>(0x7FFFFFFF),
\* from the 16 leading bits of the masked state.
randValue(st) == RoundDiv(((st.hi % 32768) * 2 + (st.lo \div 32768)) * Q, 65535)

\* bitCrush with the dither added at every bit depth.
bitCrush_alwaysDither(sample, bits, st) ==
    LET e         == bits - Q
        n         == e \div Q
        m         == ExpSeries(RoundDiv((e % Q) * 6931, Q), FALSE)
        rounded   == RoundDiv(Mul(sample, m) * IntPow(2, n), Q)
        quantized == RoundDiv(RoundDiv(rounded * Q, IntPow(2, n)) * Q, m)
        st1       == randNext(st)
        st2       == randNext(st1)
        invScale  == RoundDiv(RoundDiv(Q * Q, m), IntPow(2, n))
        dither    == Mul(Mul(randValue(st1) + randValue(st2) - Q, invScale), 5000)
    IN  [ out |-> quantized + dither, st |-> st2 ]

\* bitCrush(sample, bits) with the generator state st: the quantized sample
\* and the generator state after the call.  scale = 2^(bits-1) is kept as
\* 2^n * m with n whole and 1 <= m < 2.
bitCrush(sample, bits, st) ==
    LET e         == bits - Q
        n         == e \div Q
        m         == ExpSeries(RoundDiv((e % Q) * 6931, Q), FALSE)
        rounded   == RoundDiv(Mul(sample, m) * IntPow(2, n), Q)
        quantized == RoundDiv(RoundDiv(rounded * Q, IntPow(2, n)) * Q, m)
        st1       == randNext(st)
        st2       == randNext(st1)
        invScale  == RoundDiv(RoundDiv(Q * Q, m), IntPow(2, n))
        dither    == Mul(Mul(randValue(st1) + randValue(st2) - Q, invScale), 5000)
    IN  IF bits > ditherAbove
        THEN [ out |-> quantized + dither, st |-> st2 ]
        ELSE [ out |-> quantized, st |-> st ]

\* The sample-and-hold with `phase -= 1.0f` left out.
sampleAndHold_noWrap(g, input) ==
    LET phaseIncrement == RoundDiv(g.targetSampleRate * Q, g.actualSampleRate)
        phase          == g.phase + phaseIncrement
        crushed        == bitCrush(input, g.targetBitDepth, g.randState)
    IN  IF phase >= Q
        THEN [ dg  |-> [g EXCEPT !.phase = phase,
                                 !.holdSampleL = crushed.out,
                                 !.randState = crushed.st],
               out |-> crushed.out ]
        ELSE [ dg |-> [g EXCEPT !.phase = phase], out |-> g.holdSampleL ]

\* process, past the bypass: sample rate reduction by sample-and-hold.
sampleAndHold(g, input) ==
    LET phaseIncrement == RoundDiv(g.targetSampleRate * Q, g.actualSampleRate)
        phase          == g.phase + phaseIncrement
        crushed        == bitCrush(input, g.targetBitDepth, g.randState)
    IN  IF phase >= Q
        THEN [ dg  |-> [g EXCEPT !.phase = phase - Q,
                                 !.holdSampleL = crushed.out,
                                 !.randState = crushed.st],
               out |-> crushed.out ]
        ELSE [ dg |-> [g EXCEPT !.phase = phase], out |-> g.holdSampleL ]

\* process with the bypass test left out.
LofiDegrader_process_noBypass(g, input) == sampleAndHold(g, input)

\* process(input): the degrader after the call (dg) and the returned sample.
LofiDegrader_process(g, input) ==
    IF g.degradeAmount < degradeBypass
    THEN [ dg |-> g, out |-> input ]
    ELSE sampleAndHold(g, input)

\* ------------------------------------------------------------- Wavefolder

\* process: the bypass threshold 0.001f on foldAmount.
foldBypass == 10

\* A default-constructed Wavefolder.
Wavefolder_new ==
    [ sampleRate     |-> 44100,
      foldAmount     |-> 0,
      foldGain       |-> Q,
      dcBlockerCoeff |-> 9950,
      dcBlockerState |-> 0,
      prevInput      |-> 0 ]

\* reset()
Wavefolder_reset(w) == [w EXCEPT !.dcBlockerState = 0, !.prevInput = 0]

\* prepare(sr): dcBlockerCoeff = 1 / (1 + wc), wc = 2 pi 20 / sr.
Wavefolder_prepare(w, sr) ==
    LET wc == RoundDiv(1256637, sr)
    IN  Wavefolder_reset([w EXCEPT !.sampleRate = sr,
                                   !.dcBlockerCoeff = RoundDiv(Q * Q, Q + wc)])

\* setFold(amount)
Wavefolder_setFold(w, amount) ==
    LET foldAmount == Clamp(amount, 0, Q)
    IN  [w EXCEPT !.foldAmount = foldAmount,
                  !.foldGain   = Q + foldAmount * 7]

\* std::fmod(a, b), b > 0: the remainder has the sign of a.
Fmod(a, b) == IF a >= 0 THEN a % b ELSE -((-a) % b)

\* fold with the opposite sign: -1 at 0, rising to +1 at 2 and -2.
fold_negated(x) ==
    LET m == Fmod(x + 2 * Q, 4 * Q)
        r == IF x > 2 * Q \/ x < -2 * Q
             THEN (IF m < 0 THEN m + 4 * Q ELSE m) - 2 * Q
             ELSE x
    IN  Q - Abs(Abs(r) - 2 * Q)

\* fold with the reduction's `if (x < 0) x += 4.0f` left out.
fold_noWrap(x) ==
    LET r == IF x > 2 * Q \/ x < -2 * Q
             THEN Fmod(x + 2 * Q, 4 * Q) - 2 * Q
             ELSE x
    IN  Abs(Abs(r) - 2 * Q) - Q

\* fold(x): reduction to [-2, 2] when outside it, then ||x| - 2| - 1.
fold(x) ==
    LET m == Fmod(x + 2 * Q, 4 * Q)
        r == IF x > 2 * Q \/ x < -2 * Q
             THEN (IF m < 0 THEN m + 4 * Q ELSE m) - 2 * Q
             ELSE x
    IN  Abs(Abs(r) - 2 * Q) - Q

\* softClip(x)
softClip(x) ==
    IF x > Q THEN Q - RoundDiv(Q * Q, Mul(x, x) + Q)
    ELSE IF x < -Q THEN -Q + RoundDiv(Q * Q, Mul(x, x) + Q)
    ELSE x - RoundDiv(Mul(Mul(x, x), x), 3)

\* dcBlock(input): the wavefolder after the call and the filtered sample.
dcBlock(w, input) ==
    LET output == input - w.prevInput + Mul(w.dcBlockerCoeff, w.dcBlockerState)
    IN  [ wf |-> [w EXCEPT !.prevInput = input, !.dcBlockerState = output],
          out |-> output ]

\* process, past the bypass: gain, fold, softClip, dcBlock, and the 0.7
\* output compensation.
foldChain(w, input) ==
    LET blocked == dcBlock(w, softClip(fold(Mul(input, w.foldGain))))
    IN  [ wf |-> blocked.wf, out |-> Mul(blocked.out, 7000) ]

\* process with the bypass test left out.
Wavefolder_process_noBypass(w, input) == foldChain(w, input)

\* process(input): the wavefolder after the call (wf) and the returned
\* sample.
Wavefolder_process(w, input) ==
    IF w.foldAmount < foldBypass
    THEN [ wf |-> w, out |-> input ]
    ELSE foldChain(w, input)

\* -------------------------------------------------- juce::SmoothedValue
\* juce::SmoothedValue<float> with linear smoothing, as the processor uses it.

\* A default-constructed SmoothedValue.
Smoothed_new ==
    [ currentValue |-> 0, target |-> 0, step |-> 0, countdown |-> 0, stepsToTarget |-> 0 ]

\* setCurrentAndTargetValue(v)
Smoothed_setCurrentAndTargetValue(sv, v) ==
    [sv EXCEPT !.currentValue = v, !.target = v, !.countdown = 0]

\* reset(sampleRate, 0.05): stepsToTarget = floor(0.05 * sampleRate), and the
\* value jumps to its target.
Smoothed_reset(sv, sampleRate) ==
    Smoothed_setCurrentAndTargetValue([sv EXCEPT !.stepsToTarget = sampleRate \div 20],
                                      sv.target)

\* setTargetValue(v): nothing on an unchanged target, a jump when there is
\* no ramp length, a new linear ramp otherwise.
Smoothed_setTargetValue(sv, v) ==
    IF v = sv.target THEN sv
    ELSE IF sv.stepsToTarget <= 0 THEN Smoothed_setCurrentAndTargetValue(sv, v)
    ELSE [sv EXCEPT !.target = v,
                    !.countdown = sv.stepsToTarget,
                    !.step = RoundDiv(v - sv.currentValue, sv.stepsToTarget)]

\* getNextValue(): the SmoothedValue after the call (sv) and the value
\* returned.
Smoothed_getNextValue(sv) ==
    IF sv.countdown <= 0 THEN [ sv |-> sv, value |-> sv.target ]
    ELSE LET next == IF sv.countdown - 1 > 0 THEN sv.currentValue + sv.step
                     ELSE sv.target
         IN  [ sv |-> [sv EXCEPT !.countdown = sv.countdown - 1, !.currentValue = next],
               value |-> next ]

\* -------------------------------------------------------- CinderProcessor

ParamNames == {"decay", "shimmer", "degrade", "fold", "dirt", "size", "mix", "pre", "duck"}

\* createParameterLayout: the default value of every parameter.
defaultParams ==
    [ decay |-> 2 * Q, shimmer |-> 0, degrade |-> 0, fold |-> 0, dirt |-> 5000,
      size |-> 5000, mix |-> 3000, pre |-> 0, duck |-> 0 ]

\* processBlock: decay above 29.5 s is the infinite mode.
freezeAbove == 295000

\* processBlock: the decay handed to setParameters in the infinite mode.
freezeDecay == 1000000

\* processBlock: the pre-destruction stage runs for pre > 0.001f.
preBypass == 10

\* processBlock: the post-destruction stage runs for pre < 0.999f.
postBypass == 9990

\* processBlock: ducking is applied for duck > 0.001f.
duckBypass == 10

\* floor(sqrt(n)) by bisection, lo * lo <= n < hi * hi.
RECURSIVE sqrtBetween(_, _, _)
sqrtBetween(n, lo, hi) ==
    IF hi - lo <= 1 THEN lo
    ELSE LET mid == (lo + hi) \div 2
         IN  IF mid * mid <= n THEN sqrtBetween(n, mid, hi) ELSE sqrtBetween(n, lo, mid)

\* std::sqrt(x), for 0 <= x < 21.
Sqrt(x) == sqrtBetween(x * Q, 0, 46340)

\* The infinite mode entered at 29.5 s already.
infiniteModeOf_inclusive(decay) == decay >= freezeAbove

\* const bool infiniteMode = decay > 29.5f
infiniteModeOf(decay) == decay > freezeAbove

\* The pre-destruction stage never skipped.
preGate_always(pre) == TRUE

\* if (pre > 0.001f)
preGate(pre) == pre > preBypass

\* if (pre < 0.999f)
\* The post-destruction gate as `pre < 1.0f`.
postGate_belowOne(pre) == pre < Q

postGate(pre) == pre < postBypass

\* The envelope follower with its two coefficients exchanged.
envFollow_swapped(envState, dryMono, attack, release) ==
    LET envCoeff == IF dryMono > envState THEN release ELSE attack
    IN  Mul(envCoeff, envState) + Mul(Q - envCoeff, dryMono)

\* envCoeff = (dryMono > envState) ? envAttackCoeff : envReleaseCoeff;
\* envState = envCoeff * envState + (1 - envCoeff) * dryMono.
envFollow(envState, dryMono, attack, release) ==
    LET envCoeff == IF dryMono > envState THEN attack ELSE release
    IN  Mul(envCoeff, envState) + Mul(Q - envCoeff, dryMono)

\* blend with its two weights exchanged.
blend_swapped(a, b, w) == Mul(a, w) + Mul(b, Q - w)

\* a * (1 - w) + b * w
blend(a, b, w) == Mul(a, Q - w) + Mul(b, w)

\* The one element of a singleton set.
only(S) == CHOOSE v \in S : TRUE

\* One destruction stage on one channel: the degrader, the wavefolder fed
\* by it, and their blend by dirt.
destroy(g, w, x, dirt) ==
    only({ only({ [ dg |-> deg.dg, wf |-> folded.wf,
                    out |-> blend(deg.out, folded.out, dirt) ]
        : folded \in {Wavefolder_process(w, deg.out)} })
        : deg \in {LofiDegrader_process(g, x)} })

\* A stage that is skipped: the objects untouched, the sample passed on.
skipped(g, w, x) == [ dg |-> g, wf |-> w, out |-> x ]

\* ------------------------------------------------------------------ state

VARIABLES
    rv,        \* the ShimmerReverb objects, by channel ("L", "R")
    dg,        \* the LofiDegrader objects ("preL", "preR", "postL", "postR")
    wf,        \* the Wavefolder objects ("preL", "preR", "postL", "postR")
    obs,       \* the last call observed: its name, arguments and results
    steps,     \* the number of process calls (samples) since the run began
    quiet,     \* a reset() was called and only zero samples were processed since
    params,    \* the parameter atomics of the value tree, by name
    smoothed,  \* the SmoothedValue objects, by parameter name
    proc,      \* scalar members of the processor
    block,     \* the processBlock call in progress: its locals and position
    levels,    \* the telemetry atomics read by the editor
    stores     \* the number of parameter stores made by the host thread

vars == <<rv, dg, wf, obs, steps, quiet, params, smoothed, proc, block, levels, stores>>

processorVars == <<params, smoothed, proc, block, levels, stores>>

Channels == {"L", "R"}

Paths == {"preL", "preR", "postL", "postR"}

\* The objects as the constructor of CinderProcessor leaves them.
InitObjects ==
    /\ rv = [c \in Channels |-> ShimmerReverb_new]
    /\ dg = [p \in Paths |-> LofiDegrader_new]
    /\ wf = [p \in Paths |-> Wavefolder_new]
    /\ steps = 0
    /\ quiet = FALSE
    /\ params = defaultParams
    /\ smoothed = [n \in ParamNames |-> Smoothed_new]
    /\ proc = [ prepared |-> FALSE, currentSampleRate |-> 44100, numChannels |-> 2,
                envState |-> 0, envAttackCoeff |-> 0, envReleaseCoeff |-> 0 ]
    /\ block = [ active |-> FALSE, i |-> 0, numSamples |-> 0, numChannels |-> 2,
                 peakLevel |-> 0, sumSquares |-> 0, blockPeak |-> 0 ]
    /\ levels = [ currentReverbLevel |-> 0, outputRmsLevel |-> 0, outputPeakLevel |-> 0 ]
    /\ stores = 0

\* ---------------------------------------------------------------- bounds

\* The longest run of process calls explored on one ShimmerReverb.
MaxSteps == 44

\* On the long runs the input sample is chosen freely for the first
\* FreeSteps calls and held from then on.
FreeSteps == 1

\* On the long runs reset() is called within the first ResetBy samples.
ResetBy == 2

\* The longest run explored with a free choice of every input sample.
ShortSteps == 5

\* Input samples, within [-1, 1].
InputSamples == {-Q, 0, Q}

\* --------------------------------------- ShimmerReverb driven on its own
\* One ShimmerReverb, rv["L"], driven through its public interface.  The
\* sample rate is as low as the delay table allows (every base delay is one
\* sample), so that the feedback loop is closed within a few calls.

\* Sample rates handed to prepare().
ReverbRates == {40}

\* decaySeconds as processBlock passes it: 0.1 s .. 29.5 s, or 100 s for
\* the infinite mode.
DecayArgs == {1000, 100 * Q}

ShimmerArgs == {0, Q}

SizeArgs == {0, 5000, Q}

\* Arguments of setParameters in and out of the declared ranges.
DecayAll == {-100 * Q, -Q, -1, 0, 1, 1000, 2 * Q, 10 * Q, 13 * Q, 14 * Q, 295000,
             30 * Q, 50 * Q, 50 * Q + 1, 100 * Q}

ShimmerAll == {-5000, 0, 5000, Q, 2 * Q}

SizeAll == {-5000, 0, Q}

InitReverb == InitObjects /\ obs = [op |-> "new", in |-> 0]

RvPrepare(sr) ==
    /\ rv' = [rv EXCEPT !["L"] = ShimmerReverb_prepare(@, sr)]
    /\ obs' = [op |-> "prepare", in |-> 0]
    /\ steps' = 0
    /\ quiet' = FALSE
    /\ UNCHANGED <<processorVars, dg, wf>>

RvReset ==
    /\ rv["L"].prepared
    /\ obs.op = "process"
    /\ rv' = [rv EXCEPT !["L"] = ShimmerReverb_reset(@)]
    /\ obs' = [op |-> "reset", in |-> obs.in]
    /\ quiet' = TRUE
    /\ UNCHANGED <<processorVars, dg, wf, steps>>

RvSetParameters(d, s, z) ==
    /\ steps = 0
    /\ rv' = [rv EXCEPT !["L"] = ShimmerReverb_setParameters(@, d, s, z)]
    /\ obs' = [op |-> "setParameters", in |-> 0,
               decay |-> d, shimmer |-> s, size |-> z,
               before |-> [ op |-> obs.op,
                            decay |-> IF obs.op = "setParameters" THEN obs.decay ELSE 0,
                            feedbackGain |-> rv["L"].feedbackGain ]]
    /\ UNCHANGED <<processorVars, dg, wf, steps, quiet>>

RvProcess(x) ==
    /\ rv["L"].prepared
    /\ \E p \in {ShimmerReverb_process(rv["L"], x)} :
           /\ rv' = [rv EXCEPT !["L"] = p.rv]
           /\ obs' = [op |-> "process", in |-> x, out |-> p.out,
                      written |-> p.written,
                      readIdx |-> p.readIdx, nextIdx |-> p.nextIdx]
    /\ steps' = steps + 1
    /\ quiet' = (quiet /\ x = 0)
    /\ UNCHANGED <<processorVars, dg, wf>>

\* Long runs: the parameters are set before the first sample, the input is
\* free for FreeSteps samples and then held, reset() comes early.
NextReverb ==
    \/ \E sr \in ReverbRates : RvPrepare(sr)
    \/ steps <= ResetBy /\ RvReset
    \/ \E d \in DecayArgs, s \in ShimmerArgs, z \in SizeArgs : RvSetParameters(d, s, z)
    \/ \E x \in InputSamples :
          /\ steps < MaxSteps
          /\ steps < FreeSteps \/ x = obs.in
          /\ RvProcess(x)

SpecReverb == InitReverb /\ [][NextReverb]_vars

\* Short runs: every input sample is free and reset() may come at any time.
NextReset ==
    \/ \E sr \in ReverbRates : RvPrepare(sr)
    \/ RvReset
    \/ \E d \in DecayArgs, s \in ShimmerArgs : RvSetParameters(d, s, 5000)
    \/ \E x \in InputSamples : steps < ShortSteps /\ RvProcess(x)

SpecReset == InitReverb /\ [][NextReset]_vars

\* setParameters alone, on arguments in and out of range.
NextParams ==
    \E d \in DecayAll, s \in ShimmerAll, z \in SizeAll : RvSetParameters(d, s, z)

SpecParams == InitReverb /\ [][NextParams]_vars

\* The infinite mode after an impulse: the reverb is prepared, given the
\* parameters processBlock hands it in the infinite mode, fed one sample
\* of full scale and silence from then on.  obs adds up the squares of the
\* output over windows of five seconds (acc), and keeps the sum of the
\* first window (first) and of the last one completed (last).

\* The number of five-second windows a run lasts.
FreezeWindows == 2

\* Samples in a window of five seconds at the sample rate of the model.
FreezeWindow == 5 * 40

\* The square of an output sample, in units of 100 / Q^2.
squared(x) == (x * x) \div 100

FzPrepare(sr) ==
    /\ ~rv["L"].prepared
    /\ rv' = [rv EXCEPT !["L"] = ShimmerReverb_prepare(@, sr)]
    /\ obs' = [op |-> "prepare", in |-> 0]
    /\ UNCHANGED <<processorVars, dg, wf, steps, quiet>>

FzSetParameters(s, z) ==
    /\ obs.op = "prepare"
    /\ rv' = [rv EXCEPT !["L"] = ShimmerReverb_setParameters(@, freezeDecay, s, z)]
    /\ obs' = [op |-> "freeze", in |-> 0, out |-> 0, shimmer |-> s, size |-> z,
               windows |-> 0, acc |-> 0, first |-> 0, last |-> 0]
    /\ UNCHANGED <<processorVars, dg, wf, steps, quiet>>

FzProcess(x) ==
    /\ obs.op = "freeze"
    /\ steps < FreezeWindows * FreezeWindow
    /\ \E p \in {ShimmerReverb_process(rv["L"], x)} :
       \E acc \in {obs.acc + squared(p.out)} :
           /\ rv' = [rv EXCEPT !["L"] = p.rv]
           /\ obs' = IF (steps + 1) % FreezeWindow = 0
                     THEN [obs EXCEPT !.in = x, !.out = p.out, !.acc = 0,
                                      !.windows = obs.windows + 1,
                                      !.last = acc,
                                      !.first = IF obs.windows = 0 THEN acc ELSE obs.first]
                     ELSE [obs EXCEPT !.in = x, !.out = p.out, !.acc = acc]
    /\ steps' = steps + 1
    /\ UNCHANGED <<processorVars, dg, wf, quiet>>

Impulse == steps = 0 /\ FzProcess(Q)

Silence == steps > 0 /\ FzProcess(0)

NextFreeze ==
    \/ \E sr \in ReverbRates : FzPrepare(sr)
    \/ \E s \in ShimmerArgs, z \in SizeArgs : FzSetParameters(s, z)
    \/ Impulse
    \/ Silence

SpecFreeze == InitReverb /\ [][NextFreeze]_vars

\* hadamardMix alone: the eight inputs are drawn at the start.
HadamardInputs == {-2000, 0, 2000}

InitHadamard ==
    /\ InitObjects
    /\ \E v \in [Lines -> HadamardInputs] : obs = [op |-> "input", in |-> v]

HadamardMix ==
    /\ obs.op = "input"
    /\ obs' = [op |-> "hadamardMix", in |-> obs.in, out |-> hadamardMix(obs.in),
               sums |-> [i \in Lines |-> hadamardSum(obs.in, i)]]
    /\ UNCHANGED <<processorVars, rv, dg, wf, steps, quiet>>

SpecHadamard == InitHadamard /\ [][HadamardMix]_vars

\* ---------------------------------------- LofiDegrader driven on its own
\* One LofiDegrader, dg["preL"], driven through its public interface.  obs
\* keeps the object as it was before the call.

\* The longest run of process calls explored on one LofiDegrader.
DegraderSteps == 4

DegraderRates == {4000, 8000, 44100}

\* Arguments of setDegrade, in and out of [0, 1].
DegradeArgs == {-5000, 0, 2500, 5000, Q, 15000}

UnitInputs == {-Q, 0, 3333, Q}

DgPrepare(sr) ==
    /\ dg' = [dg EXCEPT !["preL"] = LofiDegrader_prepare(@, sr)]
    /\ obs' = [op |-> "prepare", in |-> sr, before |-> dg["preL"]]
    /\ UNCHANGED <<processorVars, rv, wf, steps, quiet>>

DgReset ==
    /\ dg' = [dg EXCEPT !["preL"] = LofiDegrader_reset(@)]
    /\ obs' = [op |-> "reset", in |-> 0, before |-> dg["preL"]]
    /\ UNCHANGED <<processorVars, rv, wf, steps, quiet>>

DgSetDegrade(amount) ==
    /\ dg' = [dg EXCEPT !["preL"] = LofiDegrader_setDegrade(@, amount)]
    /\ obs' = [op |-> "setDegrade", in |-> amount, before |-> dg["preL"]]
    /\ UNCHANGED <<processorVars, rv, wf, steps, quiet>>

DgProcess(x) ==
    /\ steps < DegraderSteps
    /\ \E p \in {LofiDegrader_process(dg["preL"], x)} :
           /\ dg' = [dg EXCEPT !["preL"] = p.dg]
           /\ obs' = [op |-> "process", in |-> x, out |-> p.out, before |-> dg["preL"]]
    /\ steps' = steps + 1
    /\ UNCHANGED <<processorVars, rv, wf, quiet>>

NextDegrader ==
    \/ \E sr \in DegraderRates : DgPrepare(sr)
    \/ DgReset
    \/ \E a \in DegradeArgs : DgSetDegrade(a)
    \/ \E x \in UnitInputs : DgProcess(x)

SpecDegrader == InitReverb /\ [][NextDegrader]_vars

\* --------------------------------------------------- bitCrush on its own
\* bitCrush applied to a sample and then to its own result, at one bit
\* depth; the sample and the bit depth are drawn at the start.

\* Samples from -1.998 to 1.998, 0.0333 apart.
CrushSamples == { k * 333 : k \in -60..60 }

\* Bit depths setDegrade can produce: 4 .. 16, whole and fractional, with
\* dither (above 6) and without.
CrushBits == { 4 * Q, 45000, 5 * Q, 57500, 6 * Q, 7 * Q, 16 * Q }

InitBitCrush ==
    /\ InitObjects
    /\ \E x \in CrushSamples, b \in CrushBits :
          obs = [op |-> "input", in |-> x, bits |-> b]

BitCrush ==
    /\ obs.op = "input"
    /\ \E c \in {bitCrush(obs.in, obs.bits, dg["preL"].randState)} :
          /\ obs' = [op |-> "bitCrush", in |-> obs.in, bits |-> obs.bits, out |-> c.out]
          /\ dg' = [dg EXCEPT !["preL"].randState = c.st]
    /\ UNCHANGED <<processorVars, rv, wf, steps, quiet>>

BitCrushAgain ==
    /\ obs.op = "bitCrush"
    /\ \E c \in {bitCrush(obs.out, obs.bits, dg["preL"].randState)} :
          /\ obs' = [op |-> "bitCrushAgain", in |-> obs.in, bits |-> obs.bits,
                     first |-> obs.out, out |-> c.out]
          /\ dg' = [dg EXCEPT !["preL"].randState = c.st]
    /\ UNCHANGED <<processorVars, rv, wf, steps, quiet>>

NextBitCrush == BitCrush \/ BitCrushAgain

SpecBitCrush == InitBitCrush /\ [][NextBitCrush]_vars

\* ------------------------------------------ Wavefolder driven on its own
\* One Wavefolder, wf["preL"], driven through its public interface.

\* The longest run of process calls explored on one Wavefolder.
FolderSteps == 4

FolderRates == {44100}

\* Arguments of setFold, in and out of [0, 1].
FoldArgs == {-5000, 0, 5000, Q, 15000}

WfPrepare(sr) ==
    /\ wf' = [wf EXCEPT !["preL"] = Wavefolder_prepare(@, sr)]
    /\ obs' = [op |-> "prepare", in |-> sr, before |-> wf["preL"]]
    /\ UNCHANGED <<processorVars, rv, dg, steps, quiet>>

WfReset ==
    /\ wf' = [wf EXCEPT !["preL"] = Wavefolder_reset(@)]
    /\ obs' = [op |-> "reset", in |-> 0, before |-> wf["preL"]]
    /\ UNCHANGED <<processorVars, rv, dg, steps, quiet>>

WfSetFold(amount) ==
    /\ wf' = [wf EXCEPT !["preL"] = Wavefolder_setFold(@, amount)]
    /\ obs' = [op |-> "setFold", in |-> amount, before |-> wf["preL"]]
    /\ UNCHANGED <<processorVars, rv, dg, steps, quiet>>

WfProcess(x) ==
    /\ steps < FolderSteps
    /\ \E p \in {Wavefolder_process(wf["preL"], x)} :
           /\ wf' = [wf EXCEPT !["preL"] = p.wf]
           /\ obs' = [op |-> "process", in |-> x, out |-> p.out, before |-> wf["preL"]]
    /\ steps' = steps + 1
    /\ UNCHANGED <<processorVars, rv, dg, quiet>>

NextFolder ==
    \/ \E sr \in FolderRates : WfPrepare(sr)
    \/ WfReset
    \/ \E a \in FoldArgs : WfSetFold(a)
    \/ \E x \in UnitInputs : WfProcess(x)

SpecFolder == InitReverb /\ [][NextFolder]_vars

\* ------------------------------------------- three LofiDegrader objects
\* dg["preL"] and dg["preR"] receive the same calls from construction on;
\* dg["postL"] is a third object that receives calls of its own in between.
\* obs holds the samples the last process call returned.

\* The most process calls made in one run, on the pair and on the third
\* object together.
TwinSteps == 3

TwinArgs == {0, 2500, Q}

TwinInputs == {3333, Q}

TwPrepare(sr) ==
    /\ dg' = [dg EXCEPT !["preL"] = LofiDegrader_prepare(@, sr),
                        !["preR"] = LofiDegrader_prepare(@, sr)]
    /\ obs' = [op |-> "prepare", in |-> sr]
    /\ UNCHANGED <<processorVars, rv, wf, steps, quiet>>

TwSetDegrade(amount) ==
    /\ dg' = [dg EXCEPT !["preL"] = LofiDegrader_setDegrade(@, amount),
                        !["preR"] = LofiDegrader_setDegrade(@, amount)]
    /\ obs' = [op |-> "setDegrade", in |-> amount]
    /\ UNCHANGED <<processorVars, rv, wf, steps, quiet>>

TwProcess(x) ==
    /\ steps < TwinSteps
    /\ \E a \in {LofiDegrader_process(dg["preL"], x)},
          b \in {LofiDegrader_process(dg["preR"], x)} :
           /\ dg' = [dg EXCEPT !["preL"] = a.dg, !["preR"] = b.dg]
           /\ obs' = [op |-> "process", in |-> x, outL |-> a.out, outR |-> b.out]
    /\ steps' = steps + 1
    /\ UNCHANGED <<processorVars, rv, wf, quiet>>

\* A call on the third object with one dither generator shared by every
\* object, as a static randState would be.
TwOtherProcess_shared(x) ==
    /\ steps < TwinSteps
    /\ \E p \in {LofiDegrader_process(dg["postL"], x)} :
           /\ dg' = [dg EXCEPT !["postL"] = p.dg,
                               !["preL"].randState = p.dg.randState]
           /\ obs' = [op |-> "other", in |-> x, out |-> p.out]
    /\ steps' = steps + 1
    /\ UNCHANGED <<processorVars, rv, wf, quiet>>

TwOtherSetDegrade(amount) ==
    /\ dg' = [dg EXCEPT !["postL"] = LofiDegrader_setDegrade(@, amount)]
    /\ obs' = [op |-> "other", in |-> amount, out |-> 0]
    /\ UNCHANGED <<processorVars, rv, wf, steps, quiet>>

TwOtherProcess(x) ==
    /\ steps < TwinSteps
    /\ \E p \in {LofiDegrader_process(dg["postL"], x)} :
           /\ dg' = [dg EXCEPT !["postL"] = p.dg]
           /\ obs' = [op |-> "other", in |-> x, out |-> p.out]
    /\ steps' = steps + 1
    /\ UNCHANGED <<processorVars, rv, wf, quiet>>

NextTwins ==
    \/ \E sr \in DegraderRates : TwPrepare(sr)
    \/ \E a \in TwinArgs : TwSetDegrade(a)
    \/ \E x \in TwinInputs : TwProcess(x)
    \/ \E a \in TwinArgs : TwOtherSetDegrade(a)
    \/ \E x \in TwinInputs : TwOtherProcess(x)

SpecTwins == InitReverb /\ [][NextTwins]_vars

\* ------------------------------------------------- fold on its own
\* fold applied to one sample and to the sample four units further on.

\* ---------------------------------------------------------------------
\* WaveformVisualizer: the 30 Hz timer of the editor's visualizer, reading
\* the processor's atomics, and the host storing the decay parameter.
\* ---------------------------------------------------------------------
VizFrames == 215

historySize == 64

\* isInfinite = decayParamRef.load() > 29.0f
infiniteAbove == 290000

\* glitchPhase += 0.3f, wrapped at twoPi * 10
glitchStep == 3000

glitchWrap == 628319

DecayValues == {285000, 290000, 292500, 295000, 297500, 300000}

WaveformVisualizer_new ==
    [ op |-> "new", in |-> 0, degradeAmount |-> 0, isInfinite |-> FALSE,
      glitchPhase |-> 0, historyWritePos |-> 0,
      levelHistory |-> [k \in 0..(historySize - 1) |-> 0] ]

VzStore(d) ==
    /\ params["decay"] # d
    /\ params' = [params EXCEPT !["decay"] = d]
    /\ UNCHANGED <<obs, rv, dg, wf, steps, quiet, smoothed, proc, block, levels, stores>>

VzTimerCallback ==
    /\ steps < VizFrames
    /\ \E phase \in {obs.glitchPhase + glitchStep} :
          obs' = [ op |-> "timerCallback", in |-> params["decay"],
                   levelHistory |-> [obs.levelHistory EXCEPT
                                       ![obs.historyWritePos] = levels.currentReverbLevel],
                   historyWritePos |-> (obs.historyWritePos + 1) % historySize,
                   degradeAmount |-> params["degrade"],
                   isInfinite |-> params["decay"] > infiniteAbove,
                   glitchPhase |-> IF phase > glitchWrap THEN phase - glitchWrap
                                   ELSE phase ]
    /\ steps' = steps + 1
    /\ UNCHANGED <<processorVars, rv, dg, wf, quiet>>

InitVisualizer == InitObjects /\ obs = WaveformVisualizer_new

NextVisualizer == (\E d \in DecayValues : VzStore(d)) \/ VzTimerCallback

SpecVisualizer == InitVisualizer /\ [][NextVisualizer]_vars

\* ---------------------------------------------------------------------
\* OutputMeter: the 30 Hz timer of the editor's meter, reading the levels
\* the processor publishes at the end of its blocks.
\* ---------------------------------------------------------------------
MeterFrames == 64

\* constexpr float falloff = 0.85f
falloff == 8500

\* peakHold *= 0.95f
holdDecay == 9500

\* peakHoldFrames = 60
holdFrames == 60

\* The output levels (RMS, peak) of a finished block.
MeterLevels == { <<0, 0>>, <<7000, 9900>>, <<7071, Q>> }

OutputMeter_new ==
    [ op |-> "new", in |-> 0, displayRms |-> 0, displayPeak |-> 0,
      peakHold |-> 0, peakHoldFrames |-> 0, holdBefore |-> 0, framesBefore |-> 0 ]

MtPublish(l) ==
    /\ <<levels.outputRmsLevel, levels.outputPeakLevel>> # l
    /\ levels' = [levels EXCEPT !.outputRmsLevel = l[1], !.outputPeakLevel = l[2]]
    /\ UNCHANGED <<obs, rv, dg, wf, steps, quiet, params, smoothed, proc, block, stores>>

MtTimerCallback ==
    /\ steps < MeterFrames
    /\ \E newRms \in {levels.outputRmsLevel}, newPeak \in {levels.outputPeakLevel} :
          obs' = [ op |-> "timerCallback", in |-> newPeak,
                   displayRms  |-> IF newRms > obs.displayRms THEN newRms
                                   ELSE Mul(obs.displayRms, falloff),
                   displayPeak |-> IF newPeak > obs.displayPeak THEN newPeak
                                   ELSE Mul(obs.displayPeak, falloff),
                   peakHold |-> IF newPeak >= obs.peakHold THEN newPeak
                                ELSE IF obs.peakHoldFrames > 0 THEN obs.peakHold
                                ELSE Mul(obs.peakHold, holdDecay),
                   peakHoldFrames |-> IF newPeak >= obs.peakHold THEN holdFrames
                                      ELSE IF obs.peakHoldFrames > 0
                                      THEN obs.peakHoldFrames - 1
                                      ELSE obs.peakHoldFrames,
                   holdBefore |-> obs.peakHold, framesBefore |-> obs.peakHoldFrames ]
    /\ steps' = steps + 1
    /\ UNCHANGED <<processorVars, rv, dg, wf, quiet>>

InitMeter == InitObjects /\ obs = OutputMeter_new

NextMeter == (\E l \in MeterLevels : MtPublish(l)) \/ MtTimerCallback

SpecMeter == InitMeter /\ [][NextMeter]_vars

\* ---------------------------------------------------------------------
\* softLimit on its own: one sample, its mirror image and a sample just
\* above it are passed through ShimmerReverb::softLimit.
\* ---------------------------------------------------------------------
LimitSamples ==
    { k * 250 : k \in -40..40 }
        \cup {-threshold - 1, -threshold + 1, threshold - 1, threshold + 1}
        \cup {-10 * Q, -6 * Q, 6 * Q, 10 * Q}

InitLimit ==
    /\ InitObjects
    /\ \E x \in LimitSamples : obs = [op |-> "input", in |-> x]

SoftLimit ==
    /\ obs.op = "input"
    /\ obs' = [op |-> "softLimit", in |-> obs.in, out |-> softLimit(obs.in),
               neg |-> softLimit(-obs.in)]
    /\ UNCHANGED <<processorVars, rv, dg, wf, steps, quiet>>

SoftLimitAbove ==
    /\ obs.op = "softLimit"
    /\ \E d \in {1, 250} :
          obs' = [op |-> "above", in |-> obs.in, out |-> obs.out,
                  neg |-> obs.neg, above |-> softLimit(obs.in + d)]
    /\ UNCHANGED <<processorVars, rv, dg, wf, steps, quiet>>

NextLimit == SoftLimit \/ SoftLimitAbove

SpecLimit == InitLimit /\ [][NextLimit]_vars

\* Samples handed to fold: a grid over [-10, 10] that holds -2 and 2, and
\* the neighbours of the two edges of the reduction.
FoldSamples == { k * 2500 : k \in -40..40 } \cup {-2 * Q - 1, -2 * Q + 1, 2 * Q - 1, 2 * Q + 1}

InitFold ==
    /\ InitObjects
    /\ \E x \in FoldSamples : obs = [op |-> "input", in |-> x]

Fold ==
    /\ obs.op = "input"
    /\ obs' = [op |-> "fold", in |-> obs.in, out |-> fold(obs.in)]
    /\ UNCHANGED <<processorVars, rv, dg, wf, steps, quiet>>

FoldShifted ==
    /\ obs.op = "fold"
    /\ obs' = [op |-> "foldShifted", in |-> obs.in, out |-> obs.out,
               shifted |-> fold(obs.in + 4 * Q)]
    /\ UNCHANGED <<processorVars, rv, dg, wf, steps, quiet>>

NextFold == Fold \/ FoldShifted

SpecFold == InitFold /\ [][NextFold]_vars

\* ------------------------------------------------------- the processor
\* The processor between its host and its DSP objects.  processBlock is
\* three kinds of step: its prologue (BlockBegin), one iteration of its
\* sample loop (Sample) and its epilogue (BlockEnd); the host thread may
\* store a parameter between any two of them.

\* The most samples processed in one run.
MaxSamples == 3

\* Buffer lengths handed to processBlock.
BlockSizes == {0, 1, 2}

ProcessorRates == {40}

\* Saved states a session may restore.
Presets ==
    { defaultParams,
      [ decay |-> 295000, shimmer |-> 0, degrade |-> 5000, fold |-> 5000, dirt |-> 5000,
        size |-> 5000, mix |-> Q, pre |-> Q, duck |-> 10 ],
      [ decay |-> 30 * Q, shimmer |-> Q, degrade |-> Q, fold |-> Q, dirt |-> Q,
        size |-> Q, mix |-> 5000, pre |-> 0, duck |-> Q ],
      [ decay |-> 1000, shimmer |-> 5000, degrade |-> 2500, fold |-> 2500, dirt |-> 2500,
        size |-> 0, mix |-> 0, pre |-> 9995, duck |-> 5000 ] }

\* Parameter changes the host thread makes while audio runs.
HostMoves == { <<"pre", 0>>, <<"decay", 30 * Q>> }

\* Input frames (left, right) of a stereo buffer, and samples of a mono one.
StereoInputs == { <<0, 0>>, <<Q, -5000>> }

MonoInputs == { Q }

\* The frames a buffer of numChannels channels may hold.
Frames(numChannels) ==
    IF numChannels > 1 THEN StereoInputs ELSE { <<x, x>> : x \in MonoInputs }

\* The sample loop with each atomic loaded and handed to setTargetValue
\* before every getNextValue.
nextValues_reloaded ==
    [n \in ParamNames |->
       Smoothed_getNextValue(Smoothed_setTargetValue(smoothed[n], params[n]))]

\* The sample loop, its nine getNextValue calls: every smoothed value after
\* the call (sv) and the value of this sample.
nextValues == [n \in ParamNames |-> Smoothed_getNextValue(smoothed[n])]

\* The sample loop, first part: the smoothed values are advanced, the
\* parameters are handed to every DSP object, the dry frame is saved and
\* the envelope follower is run on it.
controlStage(inL, inR) ==
    LET next     == nextValues
        decay    == next["decay"].value
        infiniteMode == infiniteModeOf(decay)
        actualDecay  == IF infiniteMode THEN freezeDecay ELSE decay
        dryL     == inL
        dryR     == IF block.numChannels > 1 THEN inR ELSE inL
        dryMono  == Mul(Abs(dryL) + Abs(dryR), 5000)
    IN  [ smoothed |-> [n \in ParamNames |-> next[n].sv],
          decay |-> decay, shimmer |-> next["shimmer"].value,
          degrade |-> next["degrade"].value, fold |-> next["fold"].value,
          dirt |-> next["dirt"].value, size |-> next["size"].value,
          mix |-> next["mix"].value, pre |-> next["pre"].value,
          duck |-> next["duck"].value,
          infiniteMode |-> infiniteMode, actualDecay |-> actualDecay,
          rv |-> [c \in Channels |->
                    ShimmerReverb_setParameters(rv[c], actualDecay,
                                                next["shimmer"].value, next["size"].value)],
          dg |-> [p \in Paths |-> LofiDegrader_setDegrade(dg[p], next["degrade"].value)],
          wf |-> [p \in Paths |-> Wavefolder_setFold(wf[p], next["fold"].value)],
          dry |-> [L |-> dryL, R |-> dryR],
          envState |-> envFollow(proc.envState, dryMono,
                                 proc.envAttackCoeff, proc.envReleaseCoeff) ]

\* The objects of the two destruction paths, by channel.
prePath == [L |-> "preL", R |-> "preR"]

postPath == [L |-> "postL", R |-> "postR"]

\* A destruction stage that runs on the left channel only.
destroyStage_leftOnly(c, path, x, ran) ==
    [ ran |-> ran,
      at  |-> [ch \in Channels |->
                 IF ran /\ ch = "L"
                 THEN destroy(c.dg[path[ch]], c.wf[path[ch]], x[ch], c.dirt)
                 ELSE skipped(c.dg[path[ch]], c.wf[path[ch]], x[ch])] ]

\* A destruction stage on both channels, on the objects path names and the
\* frame x; a stage that does not run leaves the objects as setDegrade and
\* setFold left them and passes the frame on.
destroyStage(c, path, x, ran) ==
    [ ran |-> ran,
      at  |-> [ch \in Channels |->
                 IF ran THEN destroy(c.dg[path[ch]], c.wf[path[ch]], x[ch], c.dirt)
                 ELSE skipped(c.dg[path[ch]], c.wf[path[ch]], x[ch])] ]

\* The reverb input, blended by pre, and the two reverbs.
reverbStage(c, p) ==
    [ch \in Channels |->
       only({ only({ [ in |-> reverbIn, rv |-> done.rv, out |-> done.out ]
           : done \in {ShimmerReverb_process(c.rv[ch], reverbIn)} })
           : reverbIn \in {blend(c.dry[ch], p.at[ch].out, c.pre)} })]

\* wetOf with the ducking gain taken from the envelope of the sample before.
wetOf_staleEnvelope(c, post, reverb) ==
    only({ IF c.duck > duckBypass
           THEN Mul(blended, Max(0, Q - Mul(c.duck, proc.envState)))
           ELSE blended
        : blended \in {blend(post, reverb, c.pre)} })

\* The wet blend, the ducking and the dry/wet mix of one channel.
wetOf(c, post, reverb) ==
    only({ IF c.duck > duckBypass
           THEN Mul(blended, Max(0, Q - Mul(c.duck, c.envState)))
           ELSE blended
        : blended \in {blend(post, reverb, c.pre)} })

\* The sample loop, last part: the frame written to the buffer and the
\* accumulators of the block, with every object as the iteration leaves it.
mixdown(c, p, r, q) ==
    only({ only({ only({
      [ smoothed |-> c.smoothed,
        rv  |-> [ch \in Channels |-> r[ch].rv],
        dg  |-> [s \in Paths |-> CASE s = "preL" -> p.at.L.dg [] s = "preR" -> p.at.R.dg
                                   [] s = "postL" -> q.at.L.dg [] OTHER -> q.at.R.dg],
        wf  |-> [s \in Paths |-> CASE s = "preL" -> p.at.L.wf [] s = "preR" -> p.at.R.wf
                                   [] s = "postL" -> q.at.L.wf [] OTHER -> q.at.R.wf],
        envState |-> c.envState,
        peakLevel  |-> Max(block.peakLevel, Abs(wet.L)),
        sumSquares |-> block.sumSquares + Mul(outSample, outSample),
        blockPeak  |-> Max(block.blockPeak, Abs(outSample)),
        seen |-> [ op |-> "sample", in |-> 0,
                   decay |-> c.decay, shimmer |-> c.shimmer, degrade |-> c.degrade,
                   fold |-> c.fold, dirt |-> c.dirt, size |-> c.size, mix |-> c.mix,
                   pre |-> c.pre, duck |-> c.duck,
                   infiniteMode |-> c.infiniteMode, actualDecay |-> c.actualDecay,
                   dryL |-> c.dry.L, dryR |-> c.dry.R,
                   preRan |-> p.ran, postRan |-> q.ran,
                   ducked |-> c.duck > duckBypass,
                   reverbInL |-> r.L.in, reverbInR |-> r.R.in,
                   reverbL |-> r.L.out, reverbR |-> r.R.out,
                   postL |-> q.at.L.out, postR |-> q.at.R.out,
                   envBefore |-> proc.envState, envState |-> c.envState,
                   wetL |-> wet.L, wetR |-> wet.R,
                   outL |-> out.L, outR |-> out.R,
                   bufL |-> IF block.numChannels > 1 THEN out.L ELSE out.R,
                   bufR |-> out.R ] ]
        : outSample \in { Mul((IF block.numChannels > 1 THEN out.L ELSE out.R) + out.R,
                              5000) } })
        : out \in { [ch \in Channels |-> blend(c.dry[ch], wet[ch], c.mix)] } })
        : wet \in { [ch \in Channels |-> wetOf(c, q.at[ch].out, r[ch].out)] } })

\* One iteration of the sample loop on the frame (inL, inR) at the current
\* state, stage by stage; enablePre = FALSE is the pipeline with its
\* pre-destruction stage disabled.
processSample(inL, inR, enablePre) ==
    only({ only({ only({ only({ mixdown(c, p, r, q)
        : q \in {destroyStage(c, postPath, [ch \in Channels |-> r[ch].out],
                              postGate(c.pre))} })
        : r \in {reverbStage(c, p)} })
        : p \in {destroyStage(c, prePath, c.dry, enablePre /\ preGate(c.pre))} })
        : c \in {controlStage(inL, inR)} })

\* setStateInformation: a saved state replaces every parameter value.
SetStateInformation(preset) ==
    /\ ~proc.prepared
    /\ steps = 0
    /\ params' = preset
    /\ obs' = [op |-> "setStateInformation", in |-> 0]
    /\ UNCHANGED <<rv, dg, wf, steps, quiet, smoothed, proc, block, levels, stores>>

\* The host thread stores one parameter while processBlock runs; one such
\* store is followed per run.
HostStore(name, v) ==
    /\ block.active
    /\ stores = 0
    /\ params[name] # v
    /\ params' = [params EXCEPT ![name] = v]
    /\ stores' = stores + 1
    /\ obs' = [obs EXCEPT !.op = "store"]
    /\ UNCHANGED <<rv, dg, wf, steps, quiet, smoothed, proc, block, levels>>

\* prepareToPlay, under the bus layout the host has settled on: the buffers
\* of the blocks to come have numChannels channels.
PrepareToPlay(sampleRate, numChannels) ==
    /\ ~proc.prepared
    /\ steps = 0
    /\ rv' = [c \in Channels |-> ShimmerReverb_prepare(rv[c], sampleRate)]
    /\ dg' = [p \in Paths |-> LofiDegrader_prepare(dg[p], sampleRate)]
    /\ wf' = [p \in Paths |-> Wavefolder_prepare(wf[p], sampleRate)]
    /\ smoothed' = [n \in ParamNames |->
                      Smoothed_setCurrentAndTargetValue(
                          Smoothed_reset(smoothed[n], sampleRate), params[n])]
    /\ proc' = [ prepared |-> TRUE, currentSampleRate |-> sampleRate,
                 numChannels |-> numChannels, envState |-> 0,
                 envAttackCoeff  |-> ExpNeg(RoundDiv(2000 * Q, sampleRate)),
                 envReleaseCoeff |-> ExpNeg(RoundDiv(100 * Q, 15 * sampleRate)) ]
    /\ obs' = [op |-> "prepareToPlay", in |-> sampleRate]
    /\ UNCHANGED <<steps, quiet, params, block, levels, stores>>

ReleaseResources ==
    /\ proc.prepared
    /\ ~block.active
    /\ rv' = [c \in Channels |-> ShimmerReverb_reset(rv[c])]
    /\ dg' = [p \in Paths |-> LofiDegrader_reset(dg[p])]
    /\ wf' = [p \in Paths |-> Wavefolder_reset(wf[p])]
    /\ proc' = [proc EXCEPT !.envState = 0, !.prepared = FALSE]
    /\ obs' = [op |-> "releaseResources", in |-> 0]
    /\ UNCHANGED <<steps, quiet, params, smoothed, block, levels, stores>>

\* processBlock up to its sample loop: the targets of the smoothed values
\* are read from the atomics, the accumulators start at zero.
BlockBegin(numSamples) ==
    /\ proc.prepared
    /\ ~block.active
    /\ steps + numSamples <= MaxSamples
    /\ smoothed' = [n \in ParamNames |-> Smoothed_setTargetValue(smoothed[n], params[n])]
    /\ block' = [ active |-> TRUE, i |-> 0, numSamples |-> numSamples,
                  numChannels |-> proc.numChannels,
                  peakLevel |-> 0, sumSquares |-> 0, blockPeak |-> 0 ]
    /\ obs' = [op |-> "processBlock", in |-> numSamples]
    /\ UNCHANGED <<rv, dg, wf, steps, quiet, params, proc, levels, stores>>

\* One iteration of the sample loop.
Sample(inL, inR) ==
    /\ block.active
    /\ block.i < block.numSamples
    /\ \E p \in {processSample(inL, inR, TRUE)} :
           /\ rv' = p.rv
           /\ dg' = p.dg
           /\ wf' = p.wf
           /\ smoothed' = p.smoothed
           /\ proc' = [proc EXCEPT !.envState = p.envState]
           /\ block' = [block EXCEPT !.i = block.i + 1,
                                     !.peakLevel = p.peakLevel,
                                     !.sumSquares = p.sumSquares,
                                     !.blockPeak = p.blockPeak]
           /\ obs' = p.seen
    /\ steps' = steps + 1
    /\ UNCHANGED <<quiet, params, levels, stores>>

\* The telemetry stores with currentReverbLevel under the numSamples > 0
\* test as well.
BlockEnd_guarded ==
    /\ block.active
    /\ block.i = block.numSamples
    /\ levels' =
          IF block.numSamples > 0
          THEN [ currentReverbLevel |-> block.peakLevel,
                 outputRmsLevel  |-> Sqrt(RoundDiv(block.sumSquares, block.numSamples)),
                 outputPeakLevel |-> block.blockPeak ]
          ELSE levels
    /\ block' = [block EXCEPT !.active = FALSE]
    /\ obs' = [op |-> "processBlockEnd", in |-> block.numSamples]
    /\ UNCHANGED <<rv, dg, wf, steps, quiet, params, smoothed, proc, stores>>

\* processBlock after its sample loop: the telemetry stores.
BlockEnd ==
    /\ block.active
    /\ block.i = block.numSamples
    /\ levels' =
          IF block.numSamples > 0
          THEN [ currentReverbLevel |-> block.peakLevel,
                 outputRmsLevel  |-> Sqrt(RoundDiv(block.sumSquares, block.numSamples)),
                 outputPeakLevel |-> block.blockPeak ]
          ELSE [levels EXCEPT !.currentReverbLevel = block.peakLevel]
    /\ block' = [block EXCEPT !.active = FALSE]
    /\ obs' = [op |-> "processBlockEnd", in |-> block.numSamples]
    /\ UNCHANGED <<rv, dg, wf, steps, quiet, params, smoothed, proc, stores>>

NextProcessor ==
    \/ \E preset \in Presets : SetStateInformation(preset)
    \/ \E m \in HostMoves : HostStore(m[1], m[2])
    \/ \E sr \in ProcessorRates, ch \in {1, 2} : PrepareToPlay(sr, ch)
    \/ ReleaseResources
    \/ \E n \in BlockSizes : BlockBegin(n)
    \/ \E f \in Frames(block.numChannels) : Sample(f[1], f[2])
    \/ BlockEnd

SpecProcessor == InitReverb /\ [][NextProcessor]_vars

\* ---------------------------------------------------------------- claims

\* Two setParameters calls in a row, both with a decay in the non-infinite
\* range the processor hands over, 0.1 s .. 29.5 s, the second one longer.
longerDecay ==
    /\ obs.op = "setParameters" /\ obs.before.op = "setParameters"
    /\ 1000 <= obs.before.decay /\ obs.before.decay < obs.decay
    /\ obs.decay <= freezeAbove

\* C1: every value pushed into a delay line, and every value a delay line
\* holds, has magnitude at most 1, and every sample process() returns
\* satisfies |output| < 4.
C1_Bounded ==
    /\ \A i \in Lines : \A k \in DOMAIN rv["L"].delayLines[i].buf :
          Abs(rv["L"].delayLines[i].buf[k]) <= Q
    /\ obs.op = "process" =>
          /\ \A i \in Lines : Abs(obs.written[i]) <= Q
          /\ Abs(obs.out) < 4 * Q

\* C1 witness: a process call in which the limiter is at work (a value at
\* or beyond the 0.8 threshold is pushed) and the output is not silent.
C1_Witness ==
    /\ obs.op = "process"
    /\ obs.out # 0
    /\ \E i \in Lines : Abs(obs.written[i]) >= threshold

\* C2: after setParameters, whatever decaySeconds was (zero and negative
\* included), feedbackGain lies in [0, 1); it is at most 0.985 when
\* decaySeconds <= 50 and is the constant 0.9985 exactly when
\* decaySeconds > 50; and for shimmerAmount in [0, 1] the loop gain
\* feedbackGain * shimmerCompensation is below 1.
C2_GainBelowUnity ==
    obs.op = "setParameters" =>
        /\ 0 <= rv["L"].feedbackGain /\ rv["L"].feedbackGain < Q
        /\ obs.decay <= 50 * Q => rv["L"].feedbackGain <= gainCap
        /\ (rv["L"].feedbackGain = infiniteGain) <=> (obs.decay > 50 * Q)
        /\ (0 <= obs.shimmer /\ obs.shimmer <= Q) =>
              Mul(rv["L"].feedbackGain, rv["L"].shimmerCompensation) < Q

\* C2 witness: a negative decaySeconds, whose RT60 power exceeds 1, is
\* clamped to the cap.
C2_Witness ==
    /\ obs.op = "setParameters"
    /\ obs.decay < 0
    /\ rt60Gain(obs.decay) > Q
    /\ rv["L"].feedbackGain = gainCap

\* Everything reset() is said to zero.
allZero(r) ==
    /\ \A i \in Lines : \A k \in DOMAIN r.delayLines[i].buf : r.delayLines[i].buf[k] = 0
    /\ \A i \in Diffusers : \A k \in DOMAIN r.inputDiffusers[i].buf :
          r.inputDiffusers[i].buf[k] = 0
    /\ \A i \in Lines : r.dampingFilters[i] = 0
    /\ \A k \in DOMAIN r.pitchShiftBuffer : r.pitchShiftBuffer[k] = 0
    /\ r.pitchShiftWritePos = 0
    /\ r.pitchShiftReadPos = 0

\* C3 (as claimed): after reset() the delay lines, the diffusers, the
\* damping-filter states, the pitch-shift buffer and both pitch-shift
\* cursors are zero, and from then on process(0) returns 0 until a nonzero
\* sample is fed.
C3_ResetZeroesAll ==
    /\ obs.op = "reset" => allZero(rv["L"])
    /\ (quiet /\ obs.op = "process") => obs.out = 0

\* The state of a destruction path that its process calls move: the phase
\* accumulators, held samples and dither generators of its degraders and
\* the DC-blocker states of its wavefolders.
pathState(g, w, side) ==
    << g[side].phase, g[side].holdSampleL, g[side].randState,
       w[side].dcBlockerState, w[side].prevInput >>

\* C4: on a sample whose smoothed pre is 0, whatever dirt, degrade and fold
\* are, the pre-destruction stage does not run: the pre-path degraders and
\* wavefolders keep their phase, held sample, dither generator and
\* DC-blocker state, the reverb input is the dry sample, and the frame
\* written and every object left behind are those of the pipeline with its
\* pre-destruction stage disabled.
C4_PreSkippedAtZero ==
    [][(obs'.op = "sample" /\ obs'.pre = 0) =>
          /\ ~obs'.preRan
          /\ pathState(dg', wf', "preL") = pathState(dg, wf, "preL")
          /\ pathState(dg', wf', "preR") = pathState(dg, wf, "preR")
          /\ obs'.reverbInL = obs'.dryL
          /\ obs'.reverbInR = obs'.dryR
          /\ \E off \in {processSample(obs'.dryL, obs'.dryR, FALSE)} :
                /\ obs'.outL = off.seen.outL
                /\ obs'.outR = off.seen.outR
                /\ rv' = off.rv /\ dg' = off.dg /\ wf' = off.wf
      ]_vars

\* C4 witness: a sample with pre = 0 and degrade and fold above zero, on an
\* input that is not silent, after the pre-destruction stage has run (its
\* degrader has taken samples, its DC blocker has been driven).
C4_Witness ==
    /\ obs.op = "sample"
    /\ obs.pre = 0
    /\ obs.degrade > degradeBypass /\ obs.fold > foldBypass
    /\ obs.dryL # 0
    /\ dg["preL"].phase # 0
    /\ wf["preL"].prevInput # 0

\* C5 (as claimed): every smoothed decay of 29.5 s or more, 29.5 itself
\* included, is the infinite mode (100 s handed to setParameters, the
\* feedback gain at its near-unity constant), and no decay below 29.5 is.
C5_InfiniteFrom295 ==
    obs.op = "sample" =>
        /\ obs.infiniteMode <=> (obs.decay >= freezeAbove)
        /\ \A c \in Channels :
              (rv[c].feedbackGain = infiniteGain) <=> (obs.decay >= freezeAbove)

\* C5 (amended): every smoothed decay strictly above 29.5 s is the infinite
\* mode (100 s handed to setParameters, the feedback gain at 0.9985), and no
\* decay of 29.5 s or less is: at exactly 29.5 the decay is passed on as it
\* is and the gain is the ordinary capped one.
C5_InfiniteAbove295 ==
    obs.op = "sample" =>
        /\ obs.infiniteMode <=> (obs.decay > freezeAbove)
        /\ obs.decay > freezeAbove =>
              /\ obs.actualDecay = freezeDecay
              /\ \A c \in Channels : rv[c].feedbackGain = infiniteGain
        /\ obs.decay <= freezeAbove =>
              /\ obs.actualDecay = obs.decay
              /\ \A c \in Channels : rv[c].feedbackGain <= gainCap

\* C5 witness: a sample at exactly 29.5 s, which is not the infinite mode.
C5_Witness ==
    /\ obs.op = "sample"
    /\ obs.decay = freezeAbove
    /\ ~obs.infiniteMode
    /\ rv["L"].feedbackGain = gainCap

\* C11 (as claimed): of two decays d1 < d2 in the non-infinite range the
\* longer one gets the strictly larger feedback gain, and the gain is < 1.
C11_StrictlyMonotone ==
    longerDecay =>
        /\ rv["L"].feedbackGain > obs.before.feedbackGain
        /\ rv["L"].feedbackGain < Q

\* C11 (amended): of two decays d1 < d2 in the non-infinite range the longer
\* one never gets the smaller feedback gain and the gain is < 1; the gain
\* is strictly larger as long as it is below the cap 0.985, and once d1 has
\* reached the cap (from about 13.7 s on) every longer decay has the same
\* gain 0.985.
C11_MonotoneToCap ==
    longerDecay =>
        /\ rv["L"].feedbackGain >= obs.before.feedbackGain
        /\ rv["L"].feedbackGain < Q
        /\ rv["L"].feedbackGain < gainCap =>
              rv["L"].feedbackGain > obs.before.feedbackGain
        /\ obs.before.feedbackGain = gainCap => rv["L"].feedbackGain = gainCap

\* C11 witness: two decays in the range, the second longer, both on the cap.
C11_Witness ==
    /\ longerDecay
    /\ obs.before.feedbackGain = gainCap
    /\ rv["L"].feedbackGain = gainCap

\* The quantization step 1 / 2^(bits - 1).
crushStep(bits) ==
    RoundDiv(RoundDiv(Q * Q, ExpSeries(RoundDiv(((bits - Q) % Q) * 6931, Q), FALSE)),
             IntPow(2, (bits - Q) \div Q))

\* The sample x in steps: x * 2^(bits - 1).
inSteps(x, bits) ==
    Mul(x, ExpSeries(RoundDiv(((bits - Q) % Q) * 6931, Q), FALSE))
    * IntPow(2, (bits - Q) \div Q)

\* C12: at a bit depth where no dither is added (6 bits or fewer in the
\* code), bitCrush applied to its own result returns it unchanged, and the
\* result is a multiple of the step 1 / 2^(bits - 1) (to the last digit
\* kept) within half a step of the sample.
C12_CrushIdempotent ==
    (obs.op = "bitCrushAgain" /\ obs.bits <= ditherAbove) =>
        /\ obs.out = obs.first
        /\ 2 * Abs(obs.first - obs.in) <= crushStep(obs.bits) + 2
        /\ Abs(inSteps(obs.first, obs.bits) - Q * RoundDiv(inSteps(obs.first, obs.bits), Q))
              <= 2 * IntPow(2, (obs.bits - Q) \div Q)

\* C12 witness: an undithered second pass over a sample that the first pass
\* moved to a nonzero level.
C12_Witness ==
    /\ obs.op = "bitCrushAgain"
    /\ obs.bits <= ditherAbove
    /\ obs.first # obs.in
    /\ obs.first # 0
    /\ obs.out = obs.first

\* C6: with degradeAmount = 0, process(x) returns x and leaves the phase
\* accumulator, the held sample and the dither generator as they were,
\* whatever the object went through before.
C6_DegraderBypass ==
    (obs.op = "process" /\ obs.before.degradeAmount = 0) =>
        /\ obs.out = obs.in
        /\ dg["preL"].phase = obs.before.phase
        /\ dg["preL"].holdSampleL = obs.before.holdSampleL
        /\ dg["preL"].randState = obs.before.randState

\* C6 witness: a bypassed call on an object that has degraded before (its
\* phase, held sample and generator have moved), on an input that differs
\* from the held sample.
C6_Witness ==
    /\ obs.op = "process"
    /\ obs.before.degradeAmount = 0
    /\ obs.before.phase # 0
    /\ obs.before.randState # randSeed
    /\ obs.in # obs.before.holdSampleL
    /\ obs.in # 0

\* C7: with foldAmount = 0, process(x) returns x and leaves the DC-blocker
\* state as it was, whatever the object went through before.
C7_FolderBypass ==
    (obs.op = "process" /\ obs.before.foldAmount = 0) =>
        /\ obs.out = obs.in
        /\ wf["preL"].dcBlockerState = obs.before.dcBlockerState
        /\ wf["preL"].prevInput = obs.before.prevInput

\* C7 witness: a bypassed call on an object whose DC blocker has been
\* driven before.
C7_Witness ==
    /\ obs.op = "process"
    /\ obs.before.foldAmount = 0
    /\ obs.before.dcBlockerState # 0
    /\ obs.before.prevInput # 0
    /\ obs.in # 0

\* C8 (as claimed): at an actual sample rate of 44100 Hz, setDegrade(1.0)
\* puts the target sample rate on the 4000 Hz floor.
C8_FloorAt44100 ==
    (obs.op = "setDegrade" /\ obs.in = Q /\ dg["preL"].actualSampleRate = 44100) =>
        dg["preL"].targetSampleRate = rateFloor

\* C9: setDegrade(amount) sets the bit depth to 16 - 12 * clamp(amount, 0, 1):
\* 16 at amount 0, 4 at amount 1, never outside [4, 16], and not higher
\* than before when the amount is not lower than before.
C9_BitDepth ==
    obs.op = "setDegrade" =>
        /\ dg["preL"].targetBitDepth = 16 * Q - 12 * Clamp(obs.in, 0, Q)
        /\ 4 * Q <= dg["preL"].targetBitDepth /\ dg["preL"].targetBitDepth <= 16 * Q
        /\ obs.in = 0 => dg["preL"].targetBitDepth = 16 * Q
        /\ obs.in = Q => dg["preL"].targetBitDepth = 4 * Q
        /\ obs.before.degradeAmount <= Clamp(obs.in, 0, Q) =>
              dg["preL"].targetBitDepth <= obs.before.targetBitDepth
        /\ obs.before.degradeAmount >= Clamp(obs.in, 0, Q) =>
              dg["preL"].targetBitDepth >= obs.before.targetBitDepth

\* C9 witness: an amount strictly inside (0, 1) set after a smaller one,
\* with a bit depth strictly between the two ends.
C9_Witness ==
    /\ obs.op = "setDegrade"
    /\ 0 < obs.before.degradeAmount /\ obs.before.degradeAmount < obs.in
    /\ obs.in < Q
    /\ 4 * Q < dg["preL"].targetBitDepth
    /\ dg["preL"].targetBitDepth < obs.before.targetBitDepth

\* C10: hadamardMix preserves energy.  On the unnormalized sums the
\* identity is exact (H H^T = 8 I); on the outputs, scaled by 1/sqrt(8)
\* and rounded, it holds within the rounding of eight values.
sumSquares(v) ==
    v[0] * v[0] + v[1] * v[1] + v[2] * v[2] + v[3] * v[3]
    + v[4] * v[4] + v[5] * v[5] + v[6] * v[6] + v[7] * v[7]

C10_EnergyPreserved ==
    obs.op = "hadamardMix" =>
        /\ sumSquares(obs.sums) = 8 * sumSquares(obs.in)
        /\ Abs(sumSquares(obs.out) - sumSquares(obs.in)) * 100 <= sumSquares(obs.in)

\* C10 witness: an input with several nonzero entries of both signs.
C10_Witness ==
    /\ obs.op = "hadamardMix"
    /\ \E i, j \in Lines : obs.in[i] > 0 /\ obs.in[j] < 0
    /\ \E i \in Lines : obs.out[i] # 0

\* C13: fold has period 4: fold(x) = fold(x + 4) for every x, the edges
\* x = -2 and x = 2 of the reduction included, and the result lies in
\* [-1, 1].
C13_FoldPeriodic ==
    obs.op = "foldShifted" =>
        /\ obs.shifted = obs.out
        /\ -Q <= obs.out /\ obs.out <= Q
        /\ -Q <= obs.shifted /\ obs.shifted <= Q

\* C13 witness: the period taken from the edge x = -2 to the edge x = 2,
\* and from a sample below -2, which the reduction wraps.
C13_Witness ==
    /\ obs.op = "foldShifted"
    /\ obs.in \in {-2 * Q, 2 * Q, -5 * Q}
    /\ obs.shifted = obs.out

\* C14: for every x in [-2, 2], fold(x) equals |2 - |x + 2|| - 1.
C14_FoldFormula ==
    (obs.op = "fold" /\ -2 * Q <= obs.in /\ obs.in <= 2 * Q) =>
        obs.out = Abs(2 * Q - Abs(obs.in + 2 * Q)) - Q

\* C15: on a process call past the bypass, at a native rate of 4000 Hz or
\* more, the phase grows by targetRate/nativeRate; when it reaches 1 it is
\* reduced by 1 and the held sample becomes the quantized input, otherwise
\* the held sample is returned unchanged.  As stated, for every such call:
\* the phase is in [0, 1) after it.
heldCall ==
    /\ obs.op = "process"
    /\ obs.before.degradeAmount >= degradeBypass
    /\ obs.before.actualSampleRate >= rateFloor

phaseSum ==
    obs.before.phase
    + RoundDiv(obs.before.targetSampleRate * Q, obs.before.actualSampleRate)

heldAsStated ==
    IF phaseSum >= Q
    THEN /\ dg["preL"].phase = phaseSum - Q
         /\ dg["preL"].holdSampleL
                = bitCrush(obs.in, obs.before.targetBitDepth, obs.before.randState).out
         /\ obs.out = dg["preL"].holdSampleL
    ELSE /\ dg["preL"].phase = phaseSum
         /\ dg["preL"].holdSampleL = obs.before.holdSampleL
         /\ obs.out = obs.before.holdSampleL

C15_PhaseBelowOne ==
    heldCall => (heldAsStated /\ 0 <= dg["preL"].phase /\ dg["preL"].phase < Q)

\* C15 as the code has it: the accumulate-and-hold step is as stated on
\* every such call; the phase is in [0, 1) after the call when it was
\* there before it and the target rate is not above the native rate.
\* setDegrade derives such a target rate from the native rate of the
\* moment; prepare changes the native rate and keeps the target rate.
C15_PhaseStaysBelowOne ==
    heldCall =>
        /\ heldAsStated
        /\ (/\ 0 <= obs.before.phase /\ obs.before.phase < Q
            /\ obs.before.targetSampleRate <= obs.before.actualSampleRate)
           => (0 <= dg["preL"].phase /\ dg["preL"].phase < Q)

\* C15 witness: a call that wraps the phase and takes a new held sample,
\* with the target rate strictly below the native rate.
C15_Witness ==
    /\ heldCall
    /\ obs.before.targetSampleRate < obs.before.actualSampleRate
    /\ 0 < obs.before.phase /\ obs.before.phase < Q
    /\ phaseSum >= Q
    /\ dg["preL"].phase = phaseSum - Q
    /\ obs.out # obs.before.holdSampleL

\* The post-destruction stage of one channel across a step of the sample
\* loop: applied to the reverb output (degrader, wavefolder, blend by
\* dirt, on the objects as setDegrade and setFold left them), or skipped
\* (no process call on the post-path objects, the reverb output passed on).
postApplied(side, reverb, post) ==
    \E d \in {destroy(LofiDegrader_setDegrade(dg[side], obs'.degrade),
                      Wavefolder_setFold(wf[side], obs'.fold), reverb, obs'.dirt)} :
        /\ dg'[side] = d.dg
        /\ wf'[side] = d.wf
        /\ post = d.out

postSkipped(side, reverb, post) ==
    /\ dg'[side] = LofiDegrader_setDegrade(dg[side], obs'.degrade)
    /\ wf'[side] = Wavefolder_setFold(wf[side], obs'.fold)
    /\ pathState(dg', wf', side) = pathState(dg, wf, side)
    /\ post = reverb

\* The wet sample of the observed frame as post * (1 - pre) + reverb * pre,
\* followed by the ducking gain when the ducking step ran.
wetAsBlended(post, reverb, wet) ==
    \E b \in {Mul(post, Q - obs.pre) + Mul(reverb, obs.pre)} :
        wet = IF obs.ducked THEN Mul(b, Max(0, Q - Mul(obs.duck, obs.envState))) ELSE b

\* C16 (as claimed): the post-destruction stage is applied to the reverb
\* output on every sample whose smoothed pre is < 1 and skipped only at
\* pre = 1.
C16_PostAppliedBelowOne ==
    [][obs'.op = "sample" =>
          IF obs'.pre < Q
          THEN /\ postApplied("postL", obs'.reverbL, obs'.postL)
               /\ postApplied("postR", obs'.reverbR, obs'.postR)
          ELSE /\ postSkipped("postL", obs'.reverbL, obs'.postL)
               /\ postSkipped("postR", obs'.reverbR, obs'.postR)
      ]_vars

\* C16 (amended): the post-destruction stage is applied to the reverb
\* output on every sample whose smoothed pre is below 0.999 and skipped on
\* every sample whose pre is 0.999 or more, 1 included; on a skipped sample
\* the post-path objects get no process call and the reverb output stands
\* in for the post-destroyed sample.  On every sample the wet signal is
\* postDestroyed * (1 - pre) + reverb * pre.
C16_PostAppliedBelow999 ==
    [][obs'.op = "sample" =>
          /\ obs'.postRan <=> (obs'.pre < postBypass)
          /\ IF obs'.pre < postBypass
             THEN /\ postApplied("postL", obs'.reverbL, obs'.postL)
                  /\ postApplied("postR", obs'.reverbR, obs'.postR)
             ELSE /\ postSkipped("postL", obs'.reverbL, obs'.postL)
                  /\ postSkipped("postR", obs'.reverbR, obs'.postR)
          /\ wetAsBlended(obs.postL, obs.reverbL, obs.wetL)'
          /\ wetAsBlended(obs.postR, obs.reverbR, obs.wetR)'
      ]_vars

\* C16 witness: a sample with pre in [0.999, 1) and degrade above its
\* bypass, on a reverb output that is not silent: the stage is skipped and
\* the post-path degrader has not moved.
C16_Witness ==
    /\ obs.op = "sample"
    /\ postBypass <= obs.pre /\ obs.pre < Q
    /\ obs.degrade >= degradeBypass
    /\ obs.reverbL # 0
    /\ ~obs.postRan
    /\ dg["postL"].phase = 0
    /\ obs.wetL # 0

\* The envelope follower of the observed frame: one step from the envelope
\* of the sample before towards the mean magnitude of the dry frame.
envelopeUpdated ==
    \E dryMono \in {Mul(Abs(obs.dryL) + Abs(obs.dryR), 5000)} :
        /\ obs.envState =
              IF dryMono > obs.envBefore
              THEN Mul(proc.envAttackCoeff, obs.envBefore)
                   + Mul(Q - proc.envAttackCoeff, dryMono)
              ELSE Mul(proc.envReleaseCoeff, obs.envBefore)
                   + Mul(Q - proc.envReleaseCoeff, dryMono)
        /\ proc.envState = obs.envState

\* The ducking gain of the observed frame, from the updated envelope.
duckGain == Max(0, Q - Mul(obs.duck, obs.envState))

\* The wet sample before ducking.
unducked(post, reverb) == Mul(post, Q - obs.pre) + Mul(reverb, obs.pre)

\* A wet sample that is the unducked one scaled by the ducking gain.
duckedBy(post, reverb, wet) == wet = Mul(unducked(post, reverb), duckGain)

\* A wet sample no larger in magnitude than the unducked one and of no
\* other sign.
tamed(post, reverb, wet) ==
    /\ Abs(wet) <= Abs(unducked(post, reverb))
    /\ unducked(post, reverb) >= 0 => wet >= 0
    /\ unducked(post, reverb) <= 0 => wet <= 0

\* C17 (as claimed): for every smoothed duck in [0, 1] both wet channels
\* are multiplied by max(0, 1 - duck * envState), the envelope being the
\* one updated with the current dry frame; the gain is in [0, 1], so the
\* wet sample neither grows nor changes sign.
C17_DuckedAlways ==
    (obs.op = "sample" /\ 0 <= obs.duck /\ obs.duck <= Q) =>
        /\ envelopeUpdated
        /\ 0 <= duckGain /\ duckGain <= Q
        /\ duckedBy(obs.postL, obs.reverbL, obs.wetL)
        /\ duckedBy(obs.postR, obs.reverbR, obs.wetR)
        /\ tamed(obs.postL, obs.reverbL, obs.wetL)
        /\ tamed(obs.postR, obs.reverbR, obs.wetR)

\* C17 (amended): for every smoothed duck above 0.001 both wet channels are
\* multiplied by max(0, 1 - duck * envState), the envelope being the one
\* updated with the current dry frame; for duck of 0.001 or less the wet
\* channels are left as they are.  The gain is in [0, 1], and the wet
\* sample neither grows nor changes sign.
C17_DuckedAboveBypass ==
    (obs.op = "sample" /\ 0 <= obs.duck /\ obs.duck <= Q) =>
        /\ envelopeUpdated
        /\ 0 <= duckGain /\ duckGain <= Q
        /\ obs.ducked <=> (obs.duck > duckBypass)
        /\ IF obs.duck > duckBypass
           THEN /\ duckedBy(obs.postL, obs.reverbL, obs.wetL)
                /\ duckedBy(obs.postR, obs.reverbR, obs.wetR)
           ELSE /\ obs.wetL = unducked(obs.postL, obs.reverbL)
                /\ obs.wetR = unducked(obs.postR, obs.reverbR)
        /\ tamed(obs.postL, obs.reverbL, obs.wetL)
        /\ tamed(obs.postR, obs.reverbR, obs.wetR)

\* C17 witness: a ducked sample whose envelope has just moved, with a gain
\* strictly between 0 and 1 on a wet signal that is not silent.
C17_Witness ==
    /\ obs.op = "sample"
    /\ obs.duck > duckBypass
    /\ obs.envState # obs.envBefore
    /\ 0 < duckGain /\ duckGain < Q
    /\ unducked(obs.postL, obs.reverbL) # 0
    /\ Abs(obs.wetL) < Abs(unducked(obs.postL, obs.reverbL))

\* C18: each output sample is dry * (1 - mix) + wet * mix, dry being the
\* input sample as it was before any processing; at mix = 0 the output is
\* the dry input exactly, whatever the other parameters and the state of
\* the reverbs, degraders and wavefolders.  A mono buffer holds the frame's
\* one output sample.
C18_DryWetMix ==
    obs.op = "sample" =>
        /\ obs.outL = Mul(obs.dryL, Q - obs.mix) + Mul(obs.wetL, obs.mix)
        /\ obs.outR = Mul(obs.dryR, Q - obs.mix) + Mul(obs.wetR, obs.mix)
        /\ obs.bufR = obs.outR
        /\ obs.bufL = IF block.numChannels > 1 THEN obs.outL ELSE obs.outR
        /\ obs.mix = 0 =>
              /\ obs.bufL = obs.dryL /\ obs.bufR = obs.dryR
              /\ obs.outL = obs.dryL /\ obs.outR = obs.dryR

\* C18 witness: a sample at mix = 0 on a dry frame that is not silent,
\* with a wet signal that differs from it and every destruction stage past
\* its bypass.
C18_Witness ==
    /\ obs.op = "sample"
    /\ obs.mix = 0
    /\ obs.dryL # 0 /\ obs.dryR # 0
    /\ obs.wetL # 0 /\ obs.wetL # obs.dryL
    /\ obs.degrade >= degradeBypass /\ obs.fold >= foldBypass
    /\ obs.outL = obs.dryL /\ obs.outR = obs.dryR

\* C19 (as claimed): the atomics are loaded once per sample and handed to
\* the ramps as their targets, so after every sample the target of each
\* ramp is the value its atomic holds, a value stored while the block runs
\* included.
C19_TargetsPerSample ==
    obs.op = "sample" => \A n \in ParamNames : smoothed[n].target = params[n]

\* C19 (amended): the atomics are loaded once per block, before the sample
\* loop, and handed to the ramps as their targets; the sample loop reads
\* no atomic and leaves every target as it is, so a value stored while a
\* block runs becomes a target at the start of the next block.
C19_TargetsPerBlock ==
    [][/\ obs'.op = "processBlock" =>
             \A n \in ParamNames : smoothed'[n].target = params[n]
       /\ steps' # steps =>
             \A n \in ParamNames : smoothed'[n].target = smoothed[n].target
       /\ (obs'.op = "store" /\ obs.op # "store") =>
             \A n \in ParamNames : smoothed'[n] = smoothed[n]
      ]_vars

\* C19 witness: a sample processed after a store made while its block was
\* running, with the ramp still aimed at the value of the block's start.
C19_Witness ==
    /\ obs.op = "sample"
    /\ block.active
    /\ stores > 0
    /\ \E n \in ParamNames :
          /\ smoothed[n].target # params[n]
          /\ obs[n] = smoothed[n].target

\* C20: setParameters treats a roomSize or shimmerAmount outside [0, 1] as
\* the nearest value inside it: the room size that scales the delay
\* lengths, dampingCoeff, shimmerCompensation and the shimmer mix are those
\* derived from the clamped arguments.
C20_ClampedAtUse ==
    obs.op = "setParameters" =>
        \E s \in {Clamp(obs.shimmer, 0, Q)}, z \in {Clamp(obs.size, 0, Q)} :
            /\ rv["L"].roomSize = z
            /\ rv["L"].dampingCoeff = 2000 + Mul(z, 4000)
            /\ rv["L"].shimmerCompensation = Q - Mul(s, 1500)
            /\ rv["L"].shimmerMix = s

\* C21: in the infinite mode, after an impulse followed by silence, the
\* reverb output does not decay: the RMS of every later five-second window
\* is at least 90% of the RMS of the first one (0.81 of its sum of
\* squares).
C21_FreezeHolds ==
    (obs.op = "freeze" /\ obs.windows >= 2) => 100 * obs.last >= 81 * obs.first

\* A step that ends a processBlock call.
blockEnds == block.active /\ ~block'.active

\* C22 (as claimed): the three telemetry scalars change only when a block
\* ends, and then each holds the value of the block just finished, a block
\* of zero samples included (whose peak is 0).
C22_LevelsOfLastBlock ==
    [][/\ levels' # levels => blockEnds
       /\ blockEnds =>
             /\ levels'.currentReverbLevel = block.peakLevel
             /\ levels'.outputPeakLevel = block.blockPeak
      ]_vars

\* C22 (amended): the three telemetry scalars change only when a block
\* ends, never inside the sample loop.  currentReverbLevel then holds the
\* peak of the block just finished, 0 for a block of zero samples;
\* outputRmsLevel and outputPeakLevel are stored for a block of one sample
\* or more and keep the values of the last such block across blocks of
\* zero samples.
C22_LevelsOfLastNonEmptyBlock ==
    [][/\ levels' # levels => blockEnds
       /\ blockEnds =>
             /\ levels'.currentReverbLevel = block.peakLevel
             /\ IF block.numSamples > 0
                THEN /\ levels'.outputPeakLevel = block.blockPeak
                     /\ levels'.outputRmsLevel
                           = Sqrt(RoundDiv(block.sumSquares, block.numSamples))
                ELSE /\ levels'.outputPeakLevel = levels.outputPeakLevel
                     /\ levels'.outputRmsLevel = levels.outputRmsLevel
      ]_vars

\* C22 witness: a block of zero samples has just ended after a block that
\* was not silent: the reverb level is back at 0, the output meters still
\* show the earlier block.
C22_Witness ==
    /\ obs.op = "processBlockEnd"
    /\ obs.in = 0
    /\ steps > 0
    /\ levels.currentReverbLevel = 0
    /\ levels.outputPeakLevel > 0
    /\ levels.outputRmsLevel > 0

C24_CursorsInStep ==
    [][rv'["L"].prepared =>
         \E size \in {Cardinality(DOMAIN rv'["L"].pitchShiftBuffer)} :
            /\ rv'["L"].pitchShiftWritePos \in 0..(size - 1)
            /\ rv'["L"].pitchShiftReadPos % Q = 0
            /\ rv'["L"].pitchShiftReadPos \div Q \in 0..(size - 1)
            /\ rv'["L"].pitchShiftReadPos
                  = ((2 * rv'["L"].pitchShiftWritePos) % size) * Q
            /\ steps' = steps + 1 =>
                  /\ rv'["L"].pitchShiftWritePos
                        = (rv["L"].pitchShiftWritePos + 1) % size
                  /\ rv'["L"].pitchShiftReadPos
                        = (rv["L"].pitchShiftReadPos + 2 * Q) % (size * Q)
                  /\ obs'.readIdx = rv'["L"].pitchShiftReadPos \div Q
                  /\ obs'.nextIdx \in 0..(size - 1)
                  /\ obs'.nextIdx = (obs'.readIdx + 1) % size
            /\ obs'.op = "reset" =>
                  /\ rv'["L"].pitchShiftWritePos = rv["L"].pitchShiftWritePos
                  /\ rv'["L"].pitchShiftReadPos = rv["L"].pitchShiftReadPos
      ]_vars

\* C24 witness: a run with a reset() between two process calls in which
\* the read cursor has wrapped three times and the write cursor once.
C24_Witness ==
    /\ obs.op = "process"
    /\ quiet
    /\ steps > Cardinality(DOMAIN rv["L"].pitchShiftBuffer)
    /\ rv["L"].pitchShiftWritePos = 11
    /\ rv["L"].pitchShiftReadPos = 2 * Q
    /\ obs.nextIdx = 3

\* C25 as stated: the limiter's output is strictly inside (-1, 1) for
\* every input.
C25_StrictlyBelowOne ==
    obs.op = "softLimit" => Abs(obs.out) < Q

\* C25: softLimit(x) is x for |x| < 0.8 and
\* sign(x) * (0.8 + 0.2 * tanh(2 * (|x| - 0.8))) otherwise; it is odd,
\* non-decreasing, meets the identity at the threshold, and its magnitude
\* never exceeds 1 (it is 1 where tanh has rounded to 1).
C25_SoftLimitShape ==
    obs.op \in {"softLimit", "above"} =>
        /\ Abs(obs.in) < threshold => obs.out = obs.in
        /\ obs.in >= threshold =>
              obs.out = threshold + Mul(Q - threshold, Tanh(2 * (obs.in - threshold)))
        /\ obs.in <= -threshold =>
              obs.out = -(threshold + Mul(Q - threshold, Tanh(2 * (-obs.in - threshold))))
        /\ obs.neg = -obs.out
        /\ Abs(obs.out) <= Q
        /\ Abs(obs.out) <= Abs(obs.in)
        /\ obs.in = threshold => obs.out = threshold
        /\ obs.op = "above" => obs.above >= obs.out

\* C25 witness: far above the threshold the limiter returns exactly 1, and
\* exactly -1 for the mirrored sample.
C25_Witness ==
    /\ obs.op = "above"
    /\ obs.in = 10 * Q
    /\ obs.out = Q
    /\ obs.neg = -Q
    /\ obs.above = Q

\* The mean magnitude of the dry frame of the observed sample.
dryMonoSeen == Mul(Abs(obs.dryL) + Abs(obs.dryR), 5000)

\* C26: on every sample the envelope moves from its previous value towards
\* the mean magnitude of the dry frame, with the attack coefficient exactly
\* when that magnitude is above the envelope and the release coefficient
\* otherwise; it never passes the dry level, so it stays between its
\* previous value and the dry level, within [0, 1] for inputs in [-1, 1];
\* prepareToPlay and releaseResources put it back to 0.
C26_EnvelopeFollows ==
    /\ obs.op = "sample" =>
          /\ 0 <= dryMonoSeen /\ dryMonoSeen <= Q
          /\ IF dryMonoSeen > obs.envBefore
             THEN /\ obs.envState
                       = Mul(proc.envAttackCoeff, obs.envBefore)
                         + Mul(Q - proc.envAttackCoeff, dryMonoSeen)
                  /\ obs.envBefore <= obs.envState
                  /\ obs.envState <= dryMonoSeen
             ELSE /\ obs.envState
                       = Mul(proc.envReleaseCoeff, obs.envBefore)
                         + Mul(Q - proc.envReleaseCoeff, dryMonoSeen)
                  /\ dryMonoSeen <= obs.envState
                  /\ obs.envState <= obs.envBefore
    /\ obs.op \in {"prepareToPlay", "releaseResources"} => proc.envState = 0
    /\ 0 <= proc.envState /\ proc.envState <= Q

\* C26 witness: a dry frame louder than an envelope that is still releasing
\* from an earlier one: the attack coefficient takes the envelope up to
\* the dry level, not beyond it.
C26_Witness ==
    /\ obs.op = "sample"
    /\ 0 < obs.envBefore
    /\ obs.envBefore < dryMonoSeen
    /\ obs.envBefore < obs.envState
    /\ obs.envState <= dryMonoSeen
    /\ proc.envAttackCoeff < proc.envReleaseCoeff

\* The sample the observed process call handed from fold to softClip.
foldedSeen == fold(Mul(obs.in, obs.before.foldGain))

lockstep ==
    /\ rv["L"] = rv["R"]
    /\ dg["preL"] = dg["preR"]
    /\ dg["postL"] = dg["postR"]
    /\ wf["preL"] = wf["preR"]
    /\ wf["postL"] = wf["postR"]

\* C28: prepareToPlay leaves the two channels' reverbs, degraders and
\* wavefolders in the same state; a sample whose left and right inputs are
\* equal keeps them so and writes equal left and right outputs, in stereo
\* and in mono; no other operation takes them apart.  The dither
\* generators of a left/right pair agree whatever the inputs.
C28_ChannelsInLockstep ==
    [][ /\ obs'.op = "prepareToPlay" => lockstep'
        /\ (lockstep /\ obs'.op # "sample") => lockstep'
        /\ (lockstep /\ obs'.op = "sample" /\ obs'.dryL = obs'.dryR) =>
              /\ lockstep'
              /\ obs'.reverbL = obs'.reverbR
              /\ obs'.wetL = obs'.wetR
              /\ obs'.outL = obs'.outR
              /\ obs'.bufL = obs'.bufR
        /\ dg'["preL"].randState = dg'["preR"].randState
        /\ dg'["postL"].randState = dg'["postR"].randState
      ]_vars

\* C28 witness: a mono block whose sample has gone through both
\* destruction stages and a sounding reverb, the channels still in the
\* same state.
C28_Witness ==
    /\ obs.op = "sample"
    /\ proc.numChannels = 1
    /\ lockstep
    /\ obs.dryL = obs.dryR /\ obs.dryL # 0
    /\ obs.preRan /\ obs.postRan
    /\ obs.reverbL # 0
    /\ obs.degrade > degradeBypass
    /\ wf["postL"].prevInput # 0
    /\ obs.outL = obs.outR /\ obs.outL # obs.dryL

\* C29: for a settled decay value, the one the visualizer's timer has just
\* loaded, the indicator isInfinite is set exactly when processBlock's
\* infiniteMode is true for that value.
C29_IndicatorAgrees ==
    obs.op = "timerCallback" => (obs.isInfinite <=> infiniteModeOf(obs.in))

\* The hold and its frame counter after a callback, given those before it
\* and the peak just read: a reading at or above the hold sets the hold and
\* restarts the 60 frames; a lower one counts a frame down while any is
\* left, and only with none left takes 5% off the hold.
holdStepped ==
    /\ obs.peakHoldFrames \in 0..holdFrames
    /\ obs.in >= obs.holdBefore =>
          obs.peakHold = obs.in /\ obs.peakHoldFrames = holdFrames
    /\ (obs.in < obs.holdBefore /\ obs.framesBefore > 0) =>
          obs.peakHold = obs.holdBefore /\ obs.peakHoldFrames = obs.framesBefore - 1
    /\ (obs.in < obs.holdBefore /\ obs.framesBefore = 0) =>
          obs.peakHold = Mul(obs.holdBefore, holdDecay) /\ obs.peakHoldFrames = 0

\* C30: after every callback of the meter's timer the peak-hold value is
\* at least the peak just read; the hold stays for 60 callbacks with lower
\* readings and decays by 0.95 per callback from the 61st; a reading at or
\* above the hold restarts the 60 frames; peakHoldFrames is in [0, 60].
C30_HoldCoversReading ==
    obs.op = "timerCallback" => (obs.peakHold >= obs.in /\ holdStepped)

====
